---- MODULE Spec2Model ----
(***************************************************************************)
(* Model of the plan execution engine of Mei: the guarded agent state      *)
(* machine (core/state.py), the plan executor (action/executor.py), the    *)
(* per-run execution context (action/context.py) and the execution logger  *)
(* the executor calls in its cleanup (action/debug/logger.py).             *)
(*                                                                         *)
(* A thread of control is either idle or inside one call of               *)
(* PlanExecutor._on_plan_created / PlanExecutor.execute_plan.  The calls   *)
(* are cut at the points where another thread can observe the executor:    *)
(* after the is_executing test, after each step, before the cleanup.       *)
(* Handlers (validate, execute, verify) are external code: every outcome   *)
(* the executor distinguishes is drawn with \E.                            *)
(***************************************************************************)
EXTENDS Integers, Sequences, FiniteSets, TLC

\* Longest plan the planner delivers in the model.
MaxSteps == 2

\* executor.py:22, seconds; compared as MAX_PLAN_DURATION*1000 milliseconds.
MAX_PLAN_DURATION == 300
\* executor.py:21, DEFAULT_STEP_DELAY = 0.1 s, in milliseconds.
DEFAULT_STEP_DELAY_MS == 100

Threads == {"t1", "t2"}

\* Optional[...] values that are None.
None == "None"
\* Optional[str] messages are sequences of message parts; None is the empty one.
NoMsg == << >>

(***************************************************************************)
(* core/state.py                                                           *)
(***************************************************************************)
AgentState ==
    {"IDLE", "LISTENING", "THINKING", "PLANNING", "EXECUTING", "SPEAKING",
     "ERROR", "STOPPED"}

\* A table that lets LISTENING go straight to EXECUTING.
allowed_transitions_direct(s) ==
    CASE s = "IDLE"      -> {"LISTENING", "THINKING", "ERROR", "STOPPED"}
      [] s = "LISTENING" -> {"IDLE", "THINKING", "EXECUTING", "ERROR"}
      [] s = "THINKING"  -> {"IDLE", "PLANNING", "SPEAKING", "ERROR"}
      [] s = "PLANNING"  -> {"EXECUTING", "THINKING", "ERROR"}
      [] s = "EXECUTING" -> {"IDLE", "SPEAKING", "THINKING", "ERROR"}
      [] s = "SPEAKING"  -> {"IDLE", "LISTENING", "EXECUTING", "ERROR"}
      [] s = "ERROR"     -> {"IDLE", "STOPPED"}
      [] OTHER           -> {}

\* self.allowed_transitions.get(s, set()): STOPPED has no entry.
allowed_transitions(s) ==
    CASE s = "IDLE"      -> {"LISTENING", "THINKING", "ERROR", "STOPPED"}
      [] s = "LISTENING" -> {"IDLE", "THINKING", "ERROR"}
      [] s = "THINKING"  -> {"IDLE", "PLANNING", "SPEAKING", "ERROR"}
      [] s = "PLANNING"  -> {"EXECUTING", "THINKING", "ERROR"}
      [] s = "EXECUTING" -> {"IDLE", "SPEAKING", "THINKING", "ERROR"}
      [] s = "SPEAKING"  -> {"IDLE", "LISTENING", "EXECUTING", "ERROR"}
      [] s = "ERROR"     -> {"IDLE", "STOPPED"}
      [] OTHER           -> {}

\* A set_state in which ERROR is no longer forced from anywhere.
ForcedStatesOnlyStopped == {"STOPPED"}

\* The `new_state not in [ERROR, STOPPED]` test of set_state.
ForcedStates == {"ERROR", "STOPPED"}

\* A set_state that accepts every transition.
set_state_unchecked(cur, last, new) ==
    IF new = cur
    THEN [ok |-> TRUE, current |-> cur, last |-> last, event |-> None]
    ELSE [ok |-> TRUE, current |-> new, last |-> cur,
          event |-> IF new = "IDLE" THEN "AGENT_STARTED" ELSE "WINDOW_CHANGED"]

\* StateMachine.set_state(new) run in state cur with last_state last: the
\* returned bool, the fields afterwards and the event it emits.
set_state(cur, last, new) ==
    IF new = cur
    THEN [ok |-> TRUE, current |-> cur, last |-> last, event |-> None]
    ELSE IF new \notin ForcedStates /\ new \notin allowed_transitions(cur)
    THEN [ok |-> FALSE, current |-> cur, last |-> last, event |-> None]
    ELSE [ok |-> TRUE, current |-> new, last |-> cur,
          event |-> IF new = "IDLE" THEN "AGENT_STARTED" ELSE "WINDOW_CHANGED"]

(***************************************************************************)
(* core/task.py, action/context.py                                         *)
(***************************************************************************)
\* Action names: two of the registered handlers and one no handler has.
RegisteredActions == {"wait", "focus_window"}
StepActions == RegisteredActions \cup {"nonexistent_action"}

\* Handlers whose supports_verification property returns True.
VerifyingActions == {"focus_window"}

\* Step(action=a): the dataclass defaults of a freshly planned step.
\* started_at / completed_at / result are kept as "is not None".
Step(a) ==
    [action |-> a, status |-> "PENDING", error |-> NoMsg,
     started_at |-> FALSE, completed_at |-> FALSE, result |-> FALSE,
     verified |-> FALSE, verification_method |-> None]

RECURSIVE SeqsUpTo(_, _)
\* All sequences over S of length at most n.
SeqsUpTo(S, n) ==
    IF n = 0 THEN {<< >>}
    ELSE LET shorter == SeqsUpTo(S, n - 1)
         IN shorter \cup {Append(q, x) : q \in {r \in shorter : Len(r) = n - 1}, x \in S}

\* The plans the planner can deliver: fresh steps, in order.
Plans == {[k \in 1..Len(q) |-> Step(q[k])] : q \in SeqsUpTo(StepActions, MaxSteps)}

\* Plan.is_complete
is_complete(p) ==
    \A k \in 1..Len(p) : p[k].status \in {"COMPLETED", "SKIPPED"}

\* ExecutionContext(plan, intent): the fields __init__ sets.
ExecutionContext ==
    [current_window |-> None, found_elements |-> {}, step_results |-> << >>,
     variables |-> {}, current_step_index |-> 0]

\* The windows handlers hand to the context: two WindowInfo objects of the
\* same window (its title changed in between) and one of another window.
Windows == {"notepad", "notepad_edited", "calculator"}

\* WindowInfo.hwnd
hwnd(w) == IF w = "calculator" THEN "0x2" ELSE "0x1"

\* A comparison that takes every window for the current one.
HwndIgnored(old_hwnd, new_hwnd) == TRUE

\* context.py:33: `old_hwnd != new_hwnd` is false.
SameHwnd(old_hwnd, new_hwnd) == old_hwnd = new_hwnd

\* ExecutionContext.set_current_window, context.py:29-35.
set_current_window(c, window) ==
    LET old_hwnd == IF c.current_window # None THEN hwnd(c.current_window) ELSE None
        new_hwnd == IF window # None THEN hwnd(window) ELSE None
    IN [c EXCEPT !.found_elements = IF SameHwnd(old_hwnd, new_hwnd) THEN @ ELSE {},
                 !.current_window = window]

\* The names handlers pass, and name.lower().strip() of each.
ElementNames == {"OK", " ok ", "Cancel"}
Normalized(name) == IF name = "Cancel" THEN "cancel" ELSE "ok"

\* The ElementReference objects handlers build (config.py:222-227).
ElementReferences == {"ref_ui_automation", "ref_visual"}

\* self._found_elements.get(normalized_name): the entries under the name.
Lookup(c, normalized_name) == {e \in c.found_elements : e[1] = normalized_name}

\* ExecutionContext.store_element, context.py:50-52.
store_element(c, name, reference) ==
    LET normalized_name == Normalized(name)
    IN [c EXCEPT !.found_elements =
            (@ \ Lookup(c, normalized_name)) \cup {<<normalized_name, reference>>}]

\* reference.is_stale(), context.py:59.  ElementReference (config.py:222-227)
\* is a dataclass of four fields and defines no is_stale: the call raises
\* AttributeError for every reference.
is_stale(reference) == "AttributeError"

\* ExecutionContext.get_element, context.py:54-62: the context afterwards,
\* the value returned and the exception raised instead.
get_element(c, name) ==
    LET normalized_name == Normalized(name)
        found == Lookup(c, normalized_name)
    IN IF found = {}
       THEN [ctx |-> c, result |-> None, raised |-> None]
       ELSE LET reference == (CHOOSE e \in found : TRUE)[2]
                stale == is_stale(reference)
            IN CASE stale = "True" ->
                      [ctx |-> [c EXCEPT !.found_elements = @ \ found],
                       result |-> None, raised |-> None]
                 [] stale = "False" ->
                      [ctx |-> c, result |-> reference, raised |-> None]
                 [] OTHER ->
                      [ctx |-> c, result |-> None, raised |-> stale]

\* No call has been made on the context yet.
NoCtxCall ==
    [op |-> None, arg |-> None, held |-> None, window |-> None, elements |-> {},
     result |-> None, raised |-> None]

\* ExecutionContext.add_step_result
add_step_result(c, r) == [c EXCEPT !.step_results = Append(@, r)]

\* ExecutionContext.set_variable (the keys only)
set_variable(c, key) == [c EXCEPT !.variables = @ \cup {key}]

(***************************************************************************)
(* Messages                                                                *)
(***************************************************************************)
NoHandlerMsg(a) == <<"No handler registered for action: ", a>>
ValidationMsg(m) == <<"Validation failed: ", m>>
ExceptionMsg(e) == <<"Exception during execution: ", e>>
UnexpectedMsg(e) == <<"Unexpected exception: ", e>>
TimeoutMsg == <<"Plan Execution timeout">>

\* Reading step_duration_ms at executor.py:270, before any assignment to it.
UnboundLocalError == "UnboundLocalError: step_duration_ms"
\* step.completed_at - step.started_at at executor.py:320 with completed_at None.
TypeError == "TypeError: NoneType - datetime"

\* The members of EventType the bus is driven with (events.py:58, 88).
EventType == {"PLAN_CREATED", "ERROR"}

\* An emitted event: its type and the data fields the claims read.
Ev(type, i, err, method) ==
    [type |-> type, step_index |-> i, error |-> err, method_used |-> method]

\* The flag f once for each of n events dispatched in a row.
Flags(n, f) == [k \in 1..n |-> f]

(***************************************************************************)
(* action/executor.py: PlanExecutor._execute_step                          *)
(***************************************************************************)
VERIFY_STEPS == TRUE
LOG_VERIFICATION_FAILURES == TRUE

ValidationErrors == {"Missing required parameter: 'seconds'"}
ResultErrors == {"Failed to focus window"}
HandlerExceptions == {"TypeError: missing required argument 'data'"}
Methods == {"window_manager"}

\* How long a handler's execute can take, in milliseconds: no time, just
\* short of the plan budget once the step delay is added, the whole budget.
Durations == {0, MAX_PLAN_DURATION * 1000 - DEFAULT_STEP_DELAY_MS, MAX_PLAN_DURATION * 1000}

\* What the handler of a step does when the executor calls it: the value of
\* validate, the outcome of execute and the outcome of verify.
HandlerBehaviours ==
    [valid : BOOLEAN, vmsg : ValidationErrors,
     exec : {"success", "failure", "raised"}, error : ResultErrors,
     method : Methods, exc : HandlerExceptions,
     verify : {"verified", "unverified", "raised"}, duration : Durations]

\* self.get_handler(step.action) is not None
HandlerFound(a) == a \in RegisteredActions

\* A validation test whose result is ignored.
ValidationIgnored(h) == FALSE

\* `if not is_valid:` at executor.py:232
ValidationFails(h) == ~h.valid

\* The calls a step has made to its handler and what came back; `at` is the
\* context's elapsed time when the step was started, `was` the status the
\* step had then and `executing` the executor's is_executing flag then.
NoCalls ==
    [validate |-> 0, execute |-> 0, verify |-> 0,
     validation |-> None, vmsg |-> None, exec |-> None, verify_result |-> None,
     at |-> 0, was |-> None, executing |-> TRUE]

\* What _execute_step hands back: the step and context as it leaves them, the
\* events it emitted, its return value (ok, error) or the exception that
\* escaped it, and the handler calls it made.
StepReturn(step, c, evs, ok, err, escaped, called) ==
    [step |-> step, ctx |-> c, events |-> evs, ok |-> ok, error |-> err,
     escaped |-> escaped, called |-> called]

\* The `except Exception as e:` clause of _execute_step, executor.py:318-335,
\* entered with exception e.  Line 320 subtracts step.started_at from
\* step.completed_at before completed_at is stamped: with completed_at still
\* None that raises TypeError, which leaves the clause and the function.
ExceptClause(step, i, c, evs, e, called) ==
    IF ~step.completed_at
    THEN StepReturn(step, c, evs, FALSE, NoMsg, TypeError, called)
    ELSE LET error_msg == ExceptionMsg(e)
             failed == [step EXCEPT !.status = "FAILED", !.error = error_msg,
                                    !.completed_at = TRUE]
         IN StepReturn(failed, c,
                       Append(evs, Ev("PLAN_STEP_FAILED", i, error_msg, None)),
                       FALSE, error_msg, None, called)

\* executor.py:275-294: the verification of a step whose execute succeeded.
\* The step and context after it; a verify that raises changes neither.
Verified(step, i, c, h) ==
    IF ~(VERIFY_STEPS /\ step.action \in VerifyingActions) \/ h.verify = "raised"
    THEN [step |-> step, ctx |-> c]
    ELSE [step |-> [step EXCEPT !.verified = (h.verify = "verified"),
                                !.verification_method = "handler_verify"],
          ctx |-> IF h.verify = "unverified" /\ LOG_VERIFICATION_FAILURES
                  THEN set_variable(c, <<"step_verify_failed", i>>)
                  ELSE c]

\* What the execute of a registered handler stores in the context when it
\* succeeds: WaitHandler.execute sets two variables (handlers/utility.py:67-68),
\* FocusWindowHandler.execute the current window (handlers/window.py:80).
HandlerEffects(c, action) ==
    CASE action = "wait" ->
             set_variable(set_variable(c, <<"last_wait_seconds">>),
                          <<"last_wait_reason">>)
      [] action = "focus_window" -> set_current_window(c, "notepad")
      [] OTHER -> c

\* A verification whose verdict decides the step.
StatusByVerdict(h) == IF h.verify = "verified" THEN "COMPLETED" ELSE "FAILED"

\* executor.py:296: the status of a step whose execute succeeded, set after
\* the verification whatever it did.
StatusAfterVerify(h) == "COMPLETED"

\* The `try:` block of _execute_step, executor.py:250-316.
TryBlock(step, i, c, evs, h, called) ==
    LET called1 == [called EXCEPT !.execute = @ + 1, !.exec = h.exec]
    IN CASE h.exec = "raised" ->
              ExceptClause(step, i, c, evs, h.exc, called1)
         [] h.exec = "failure" ->
              \* lines 252-259, then line 270 reads the unassigned local
              \* step_duration_ms while building the event: UnboundLocalError.
              LET c1 == add_step_result(c, [success |-> FALSE, error |-> <<h.error>>,
                                            method_used |-> h.method])
                  failed == [step EXCEPT !.result = TRUE, !.status = "FAILED",
                                         !.error = <<h.error>>, !.completed_at = TRUE]
              IN ExceptClause(failed, i, c1, evs, UnboundLocalError, called1)
         [] OTHER ->
              LET c1 == add_step_result(HandlerEffects(c, step.action),
                                        [success |-> TRUE, error |-> NoMsg,
                                         method_used |-> h.method])
                  s1 == [step EXCEPT !.result = TRUE]
                  v == Verified(s1, i, c1, h)
                  called2 == IF VERIFY_STEPS /\ step.action \in VerifyingActions
                             THEN [called1 EXCEPT !.verify = @ + 1,
                                                  !.verify_result = h.verify]
                             ELSE called1
                  done == [v.step EXCEPT !.status = StatusAfterVerify(h),
                                         !.completed_at = TRUE]
              IN StepReturn(done, v.ctx,
                            Append(evs, Ev("PLAN_STEP_COMPLETED", i, NoMsg, h.method)),
                            TRUE, NoMsg, None, called2)

\* PlanExecutor._execute_step(step, step_index, context) when the step's
\* handler behaves as h.
_execute_step(step, i, c, h) ==
    LET c1 == [c EXCEPT !.current_step_index = i]
        running == [step EXCEPT !.status = "RUNNING", !.started_at = TRUE]
        evs == <<Ev("PLAN_STEP_STARTED", i, NoMsg, None)>>
    IN IF ~HandlerFound(step.action)
       THEN LET error_msg == NoHandlerMsg(step.action)
                failed == [running EXCEPT !.status = "FAILED", !.error = error_msg,
                                          !.completed_at = TRUE]
            IN StepReturn(failed, c1,
                          Append(evs, Ev("PLAN_STEP_FAILED", i, error_msg, None)),
                          FALSE, error_msg, None, NoCalls)
       ELSE LET called == [NoCalls EXCEPT !.validate = 1,
                                          !.validation = IF h.valid THEN "valid"
                                                         ELSE "invalid",
                                          !.vmsg = IF h.valid THEN None ELSE h.vmsg]
            IN IF ValidationFails(h)
               THEN LET error_msg == ValidationMsg(h.vmsg)
                        failed == [running EXCEPT !.status = "FAILED",
                                                  !.error = error_msg,
                                                  !.completed_at = TRUE]
                    IN StepReturn(failed, c1,
                                  Append(evs, Ev("PLAN_STEP_FAILED", i, error_msg, None)),
                                  FALSE, error_msg, None, called)
               ELSE TryBlock(running, i, c1, evs, h, called)

(***************************************************************************)
(* action/executor.py: the handler registry, execute_single_action         *)
(***************************************************************************)
\* The handler groups the loaders supply.
HandlerGroups == {"window", "util"}

\* Handler objects: the action_name property and the group that made them.
ActionHandlers == [action_name : StepActions, group : HandlerGroups]

\* `action_name in self._handlers` / self._handlers.get(action_name): the
\* items of the registry under a name.
Registered(registry, name) == {item \in registry : item[1] = name}

\* self._handlers[action_name] = handler
SetItem(registry, name, handler) ==
    (registry \ Registered(registry, name)) \cup {<<name, handler>>}

\* No registration has been made yet.
NoRegistration ==
    [op |-> None, handler |-> None, previous |-> {}, printed |-> None]

\* executor.py:68-72, one turn of the loop of _register_all_handlers: the
\* registry after it and the line it prints.
merge_handler(registry, handler) ==
    LET action_name == handler.action_name
        previous == Registered(registry, action_name)
    IN [registry |-> SetItem(registry, action_name, handler),
        last |-> [op |-> "_register_all_handlers", handler |-> handler,
                  previous |-> previous,
                  printed |-> IF previous # {} THEN "Duplicate handler for"
                              ELSE None]]

\* executor.py:78-82, PlanExecutor.register_handler(handler).
register_handler(registry, handler) ==
    LET action_name == handler.action_name
    IN [registry |-> SetItem(registry, action_name, handler),
        last |-> [op |-> "register_handler", handler |-> handler,
                  previous |-> Registered(registry, action_name),
                  printed |-> "Registered handler:"]]

\* ActionResult(success=False, error=...) at executor.py:341, 348 and 378:
\* the dataclass (core/config.py:201-206) has four fields without defaults,
\* so a construction without data and method_used raises.
MissingArguments ==
    "TypeError: __init__() missing 2 required positional arguments: 'data' and 'method_used'"

\* No ActionResult.
NoResult == [success |-> FALSE, error |-> NoMsg, method_used |-> None]

\* No execute_single_action call has been made yet.
NoDirectCall ==
    [action |-> None, found |-> FALSE, handler_valid |-> FALSE, handler_exec |-> None,
     handler_result |-> NoResult, validate |-> 0, execute |-> 0, verify |-> 0,
     emitted |-> 0, returns |-> FALSE, result |-> NoResult, raised |-> None]

\* PlanExecutor.execute_single_action(action, parameters), executor.py:338-381,
\* with the registry as it is and the handler behaving as h: the handler
\* calls it makes and what comes back.
execute_single_action(registry, action, h) ==
    LET handler_result == [success |-> h.exec = "success",
                           error |-> IF h.exec = "success" THEN NoMsg ELSE <<h.error>>,
                           method_used |-> h.method]
        call == [NoDirectCall EXCEPT !.action = action,
                                     !.found = Registered(registry, action) # {}]
    IN IF Registered(registry, action) = {}
       THEN [call EXCEPT !.raised = MissingArguments]
       ELSE LET validated == [call EXCEPT !.validate = 1, !.handler_valid = h.valid]
            IN IF ~h.valid
               THEN [validated EXCEPT !.raised = MissingArguments]
               ELSE LET executed == [validated EXCEPT !.execute = 1,
                                                     !.handler_exec = h.exec]
                    IN IF h.exec = "raised"
                       THEN [executed EXCEPT !.raised = MissingArguments]
                       ELSE [executed EXCEPT !.returns = TRUE,
                                             !.handler_result = handler_result,
                                             !.result = handler_result]

(***************************************************************************)
(* State                                                                   *)
(***************************************************************************)
VARIABLES
    current_state,    \* StateMachine.current_state
    last_state,       \* StateMachine.last_state
    lastSetState,     \* the most recent set_state call: from, to, returned
    is_executing,     \* PlanExecutor._is_executing
    current_context,  \* PlanExecutor._current_context: the run that owns it
    log_keys,         \* the keys of ExecutionLogger._log_data
    pc,               \* where each thread is in its call
    via,              \* how the call was started: "event" or "direct"
    plan,             \* the Plan the call runs
    step_index,       \* the loop variable of execute_plan
    failure_reason,   \* the local failure_reason of execute_plan
    plan_success,     \* the local plan_success of execute_plan
    context,          \* the ExecutionContext of the call
    elapsed,          \* context.elapsed_time_ms(), saturated above the budget
    events,           \* the events the call has emitted, in order
    calls,            \* per step, the handler calls the call has made
    outcome,          \* how the call ended: True, False, raised, dropped
    entry_state,      \* the state machine's state when execute_plan was entered
    logged,           \* the log_execution calls of the call: arguments, steps and events so far
    flag_at,          \* for each event of the call, self._is_executing when it was dispatched
    met,              \* the other threads that were inside a run when the call was entered
    stop_seen,        \* stop() has been called while the thread was inside its run
    subscribed        \* _on_plan_created is among the bus's PLAN_CREATED handlers

\* StateMachine, seen call by call from concurrent threads (core/state.py).
VARIABLES
    last_transition,  \* StateMachine.last_transition: the clock when it was set
    now,              \* the clock datetime.now() reads: one tick per set_state call
    state_lock,       \* StateMachine._state_lock: the thread that holds it
    sm_pc,            \* where each thread is in its set_state call
    sm_new,           \* the new_state argument of the call
    sm_seen,          \* the machine's fields when the call took the lock
    sm_ret,           \* what the thread's last call returned and left behind
    sm_change,        \* the most recent change of current_state: from, to
    trail,            \* the states entered since the machine was last LISTENING
    sm_old,           \* the local old_state of the call
    sm_inner,         \* the state a subscriber, run by the call's emit, calls set_state with
    sm_emitted        \* the events the call has emitted, each with current_state as it was then

smcVars ==
    <<last_transition, now, state_lock, sm_pc, sm_new, sm_seen, sm_ret,
      sm_change, trail, sm_old, sm_inner, sm_emitted>>

\* EventBus (core/events.py), driven by one thread.
VARIABLES
    bus_handlers,     \* EventBus._handlers: per event type, the subscribed handlers
    global_handlers,  \* EventBus._global_handlers
    handler_lock,     \* EventBus._handler_lock: held or None
    event_history,    \* EventBus._event_history
    stack,            \* the emit calls in progress, innermost last
    emitted,          \* the number of events emitted so far (the next event's id - 1)
    sub_clock         \* the number of subscriptions made so far

busVars ==
    <<bus_handlers, global_handlers, handler_lock, event_history, stack, emitted,
      sub_clock>>

\* Threads inside the first three lines of EventBus.emit (events.py:159-161).
VARIABLES
    h_pc,             \* where each thread is in those lines (idle: outside)
    h_ev,             \* the event the thread's emit was called with
    h_ref,            \* the list object the thread has read self._event_history to be
    h_tmp,            \* the slice the thread has made and not yet assigned
    h_order           \* the events appended so far, in the order of their appends

histVars == <<h_pc, h_ev, h_ref, h_tmp, h_order>>

\* An ExecutionContext driven directly, as handlers drive it (action/context.py).
VARIABLES
    ectx,             \* the ExecutionContext
    ctx_last          \* the last call made on it: its arguments, what it found, what came back

ctxVars == <<ectx, ctx_last>>

\* The handler registry of a PlanExecutor and its direct entry point
\* (action/executor.py:41-88, 338-381).
VARIABLES
    _handlers,        \* PlanExecutor._handlers: the (action_name, handler) items of the dict
    reg_phase,        \* "startup" inside _register_all_handlers, then "ready"
    loaded,           \* the number of handlers the startup merge has gone through
    reg_last,         \* the last registration: the handler, what the name held, what was printed
    direct            \* the last execute_single_action call: its handler calls and what came back

regVars == <<_handlers, reg_phase, loaded, reg_last, direct>>

\* What no operation of the executor touches.
envVars == <<log_keys, smcVars, busVars, ctxVars, regVars, subscribed, histVars>>

\* The thread is not inside an emit; it holds no list object.
NoEvent == [type |-> None, id |-> 0]
NoRef == [live |-> FALSE, content |-> << >>]

\* No set_state call has returned to the thread yet.
NoReturn ==
    [kind |-> None, was |-> None, to |-> None, ok |-> FALSE, untouched |-> TRUE,
     events |-> << >>]

vars ==
    <<current_state, last_state, lastSetState, is_executing, current_context,
      log_keys, pc, via, plan, step_index, failure_reason, plan_success,
      context, elapsed, events, calls, outcome, entry_state, logged, flag_at, met,
      stop_seen, subscribed, histVars, smcVars, busVars,
      ctxVars, regVars>>

smVars == <<current_state, last_state, lastSetState>>
runVars ==
    <<plan, step_index, failure_reason, plan_success, context, elapsed, events,
      calls, entry_state, logged, flag_at, met, stop_seen>>

\* The keys _load_or_create_log requires of a stored log, and always creates.
BaseLogKeys == {"executions", "metadata"}

\* No call: the locals of a thread that is not inside the executor.
NoPlan == << >>

\* The threads that are between the creation of their context and the end of
\* execute_plan.
Running(t) == pc[t] \in {"loop", "finally"}

\* Everything past MAX_PLAN_DURATION*1000 ms is one value: only the
\* comparison with the budget reads the elapsed time.
ElapsedCap == MAX_PLAN_DURATION * 1000 + 1
Saturate(ms) == IF ms > ElapsedCap THEN ElapsedCap ELSE ms

\* d milliseconds pass: the clock every running context's elapsed_time_ms reads.
TimePasses(d) ==
    elapsed' = [u \in Threads |-> IF Running(u) THEN Saturate(elapsed[u] + d)
                                  ELSE elapsed[u]]

Init ==
    /\ current_state = "IDLE"
    /\ last_state = "STOPPED"
    /\ lastSetState = [from |-> None, to |-> None, ok |-> FALSE, event |-> None]
    /\ is_executing = FALSE
    /\ current_context = None
    /\ log_keys \in {BaseLogKeys, BaseLogKeys \cup {"execution"}}
    /\ pc = [t \in Threads |-> "idle"]
    /\ via = [t \in Threads |-> None]
    /\ plan = [t \in Threads |-> NoPlan]
    /\ step_index = [t \in Threads |-> 0]
    /\ failure_reason = [t \in Threads |-> NoMsg]
    /\ plan_success = [t \in Threads |-> FALSE]
    /\ context = [t \in Threads |-> ExecutionContext]
    /\ elapsed = [t \in Threads |-> 0]
    /\ events = [t \in Threads |-> << >>]
    /\ calls = [t \in Threads |-> << >>]
    /\ outcome = [t \in Threads |-> None]
    /\ entry_state = [t \in Threads |-> None]
    /\ logged = [t \in Threads |-> << >>]
    /\ flag_at = [t \in Threads |-> << >>]
    /\ met = [t \in Threads |-> {}]
    /\ stop_seen = [t \in Threads |-> FALSE]
    /\ subscribed = TRUE
    /\ last_transition = 0
    /\ now = 0
    /\ state_lock = None
    /\ sm_pc = [t \in Threads |-> "idle"]
    /\ sm_new = [t \in Threads |-> None]
    /\ sm_seen = [t \in Threads |-> << >>]
    /\ sm_ret = [t \in Threads |-> NoReturn]
    /\ sm_old = [t \in Threads |-> None]
    /\ sm_emitted = [t \in Threads |-> << >>]
    /\ sm_inner = [t \in Threads |-> None]
    /\ sm_change = [from |-> None, to |-> None]
    /\ trail = [from_listening |-> FALSE, seen |-> {}]
    /\ bus_handlers = [ty \in EventType |-> << >>]
    /\ global_handlers = << >>
    /\ handler_lock = None
    /\ event_history = << >>
    /\ stack = << >>
    /\ emitted = 0
    /\ sub_clock = 0
    /\ h_pc = [t \in Threads |-> "idle"]
    /\ h_ev = [t \in Threads |-> NoEvent]
    /\ h_ref = [t \in Threads |-> NoRef]
    /\ h_tmp = [t \in Threads |-> << >>]
    /\ h_order = << >>
    /\ ectx = ExecutionContext
    /\ ctx_last = NoCtxCall
    /\ _handlers = {}
    /\ reg_phase = "startup"
    /\ loaded = 0
    /\ reg_last = NoRegistration
    /\ direct = NoDirectCall

\* The state machine after a call of set_state(new), and the record of it.
CallSetState(new) ==
    LET r == set_state(current_state, last_state, new)
    IN /\ current_state' = r.current
       /\ last_state' = r.last
       /\ lastSetState' = [from |-> current_state, to |-> new, ok |-> r.ok,
                           event |-> r.event]

\* The transition event set_state(new) emits from the current state, if any.
StateEvents(new) ==
    LET r == set_state(current_state, last_state, new)
    IN IF r.event = None THEN << >> ELSE <<Ev(r.event, -1, NoMsg, None)>>

\* A thread enters a call with plan p: its locals start afresh.
EnterCall(t, p, how, at) ==
    /\ pc' = [pc EXCEPT ![t] = at]
    /\ via' = [via EXCEPT ![t] = how]
    /\ plan' = [plan EXCEPT ![t] = p]
    /\ step_index' = [step_index EXCEPT ![t] = 0]
    /\ failure_reason' = [failure_reason EXCEPT ![t] = NoMsg]
    /\ plan_success' = [plan_success EXCEPT ![t] = FALSE]
    /\ context' = [context EXCEPT ![t] = ExecutionContext]
    /\ elapsed' = [elapsed EXCEPT ![t] = 0]
    /\ events' = [events EXCEPT ![t] = << >>]
    /\ calls' = [calls EXCEPT ![t] = << >>]
    /\ entry_state' = [entry_state EXCEPT ![t] = None]
    /\ logged' = [logged EXCEPT ![t] = << >>]
    /\ flag_at' = [flag_at EXCEPT ![t] = << >>]
    /\ met' = [met EXCEPT ![t] = IF pc'[t] = "checked"
                                 THEN {u \in Threads \ {t} : Running(u)} ELSE {}]
    /\ stop_seen' = [stop_seen EXCEPT ![t] = FALSE]

(***************************************************************************)
(* action/executor.py: entry points                                        *)
(***************************************************************************)
\* `if self._is_executing: ... return`, executor.py:107-109: what becomes of
\* a PLAN_CREATED that carries a plan and an intent.
on_plan_created(executing) == IF executing THEN "dropped" ELSE "executed"

\* _on_plan_created, executor.py:107-109: a plan arrives while is_executing
\* is set and is ignored.
OnPlanCreatedDropped(t, p) ==
    /\ pc[t] = "idle"
    /\ subscribed
    /\ is_executing
    /\ outcome' = [outcome EXCEPT ![t] = "dropped"]
    /\ UNCHANGED <<smVars, is_executing, current_context, envVars, pc, via, runVars>>

\* _on_plan_created, executor.py:107-110: is_executing was read as false; the
\* call of execute_plan that sets it comes next.
OnPlanCreatedAccepted(t, p) ==
    /\ pc[t] = "idle"
    /\ subscribed
    /\ ~is_executing
    /\ EnterCall(t, p, "event", "checked")
    /\ outcome' = [outcome EXCEPT ![t] = None]
    /\ UNCHANGED <<smVars, is_executing, current_context, envVars>>

\* `if not plan or not intent:`, executor.py:102.
MissingData(has_plan, has_intent) == ~has_plan \/ ~has_intent

\* An early return that reports nothing.
NothingEmitted == << >>

\* executor.py:104: the one emit of the early return.
MissingDataEvents ==
    <<Ev("ERROR", -1, <<"PLAN_CREATED event missing data">>, None)>>

\* _on_plan_created, executor.py:102-105: the event carries no plan or no
\* intent.
OnPlanCreatedMissing(t) ==
    /\ pc[t] = "idle"
    /\ subscribed
    /\ \E has_plan, has_intent \in BOOLEAN : MissingData(has_plan, has_intent)
    /\ events' = [events EXCEPT ![t] = MissingDataEvents]
    /\ flag_at' = [flag_at EXCEPT ![t] = Flags(Len(MissingDataEvents), is_executing)]
    /\ outcome' = [outcome EXCEPT ![t] = "missing"]
    /\ UNCHANGED <<smVars, is_executing, current_context, envVars, pc, via, plan,
                   step_index, failure_reason, plan_success, context, elapsed, calls,
                   entry_state, logged, met, stop_seen>>

\* An execute_plan that turns a call down while a run is in progress.
RefusedWhileExecuting(executing) == executing

\* executor.py:112-113, 400-401: execute_plan assigns self._is_executing
\* without reading it first; no call is turned down.
DirectCallRefused(executing) == FALSE

\* A direct call of execute_plan(plan, intent): no test of is_executing.
CallExecutePlan(t, p) ==
    /\ pc[t] = "idle"
    /\ ~DirectCallRefused(is_executing)
    /\ EnterCall(t, p, "direct", "checked")
    /\ outcome' = [outcome EXCEPT ![t] = None]
    /\ UNCHANGED <<smVars, is_executing, current_context, envVars>>

\* A run that goes on with the context the thread's last run left behind.
ReusedContext(previous) == previous

\* `context = ExecutionContext(plan=plan, intent=intent)`, executor.py:120:
\* a new object, whatever context an earlier call built.
NewContext(previous) == ExecutionContext

\* A start that gives the run up when the state machine refuses EXECUTING.
RunsOnlyIfAccepted(accepted) == accepted

\* executor.py:117-118: `if not self._state_machine.set_state(EXECUTING):`
\* only prints a warning; the run goes on whatever set_state returned.
RunsSteps(accepted) == TRUE

\* execute_plan, executor.py:113-126.
Begin(t) ==
    /\ pc[t] = "checked"
    /\ is_executing' = TRUE
    /\ CallSetState("EXECUTING")
    /\ events' = [events EXCEPT ![t] = StateEvents("EXECUTING")]
    /\ flag_at' = [flag_at EXCEPT ![t] = Flags(Len(StateEvents("EXECUTING")), TRUE)]
    /\ context' = [context EXCEPT ![t] = NewContext(@)]
    /\ current_context' = t
    /\ elapsed' = [elapsed EXCEPT ![t] = 0]
    /\ pc' = [pc EXCEPT ![t] =
                 IF RunsSteps(set_state(current_state, last_state, "EXECUTING").ok)
                 THEN "loop" ELSE "finally"]
    /\ entry_state' = [entry_state EXCEPT ![t] = current_state]
    /\ UNCHANGED <<envVars, via, plan, step_index, failure_reason, plan_success,
                   calls, outcome, logged, met, stop_seen>>

(***************************************************************************)
(* action/executor.py: the loop of execute_plan                            *)
(***************************************************************************)
\* `context.elapsed_time_ms() > MAX_PLAN_DURATION*1000`, executor.py:130
TimedOut(ms) == ms > MAX_PLAN_DURATION * 1000

\* `if not step_success: ... break`, executor.py:136-138
BreaksOnFailure(step_success) == ~step_success

\* `if failure_reason is None: plan_success = True`, executor.py:142-143
PlanSucceeded(reason) == reason = NoMsg

\* A loop that runs the step it has just run once more.
SameStepAgain(i) == i

\* `for step_index, step in enumerate(plan.steps):`, executor.py:129: the
\* index of the step after step i.
NextStepIndex(i) == i + 1

\* A loop that ends when stop() has cleared the flag.
CancelledWhenStopped(executing) == ~executing

\* executor.py:129-140: the loop of execute_plan never reads
\* self._is_executing, so clearing it ends nothing.
Cancelled(executing) == FALSE

\* executor.py:130-132: the budget is spent when the loop reaches a step.
Timeout(t) ==
    /\ pc[t] = "loop"
    /\ step_index[t] < Len(plan[t])
    /\ ~Cancelled(is_executing)
    /\ TimedOut(elapsed[t])
    /\ failure_reason' = [failure_reason EXCEPT ![t] = TimeoutMsg]
    /\ plan_success' = [plan_success EXCEPT ![t] = PlanSucceeded(TimeoutMsg)]
    /\ pc' = [pc EXCEPT ![t] = "finally"]
    /\ UNCHANGED <<smVars, is_executing, current_context, envVars, via, plan,
                   step_index, context, elapsed, events, calls, outcome, entry_state,
                   logged, flag_at, met, stop_seen>>

\* executor.py:134-141 and 145-148: one pass of the loop body for a step whose
\* handler behaves as h.
DoStep(t, h) ==
    /\ pc[t] = "loop"
    /\ step_index[t] < Len(plan[t])
    /\ ~Cancelled(is_executing)
    /\ ~TimedOut(elapsed[t])
    /\ LET i == step_index[t]
           r == _execute_step(plan[t][i + 1], i, context[t], h)
           worked == IF r.called.execute > 0 THEN h.duration ELSE 0
       IN /\ plan' = [plan EXCEPT ![t][i + 1] = r.step]
          /\ context' = [context EXCEPT ![t] = r.ctx]
          /\ calls' = [calls EXCEPT ![t] = Append(@, [r.called EXCEPT !.at = elapsed[t],
                                                   !.was = plan[t][i + 1].status,
                                                   !.executing = is_executing])]
          /\ IF r.escaped # None
             THEN \* `except Exception as e:` of execute_plan
                  /\ failure_reason' = [failure_reason EXCEPT ![t] = UnexpectedMsg(r.escaped)]
                  /\ plan_success' = plan_success
                  /\ events' = [events EXCEPT ![t] =
                                   @ \o r.events \o <<Ev("ERROR", -1, <<r.escaped>>, None)>>]
                  /\ step_index' = step_index
                  /\ TimePasses(worked)
                  /\ pc' = [pc EXCEPT ![t] = "finally"]
             ELSE /\ events' = [events EXCEPT ![t] = @ \o r.events]
                  /\ failure_reason' = [failure_reason EXCEPT ![t] =
                                           IF r.ok THEN @ ELSE r.error]
                  /\ IF BreaksOnFailure(r.ok)
                     THEN /\ plan_success' = [plan_success EXCEPT ![t] =
                                                 PlanSucceeded(failure_reason'[t])]
                          /\ step_index' = step_index
                          /\ TimePasses(worked)
                          /\ pc' = [pc EXCEPT ![t] = "finally"]
                     ELSE /\ plan_success' = plan_success
                          /\ step_index' = [step_index EXCEPT ![t] = NextStepIndex(i)]
                          /\ TimePasses(worked + IF i < Len(plan[t]) - 1
                                                 THEN DEFAULT_STEP_DELAY_MS ELSE 0)
                          /\ pc' = pc
    /\ flag_at' = [flag_at EXCEPT ![t] =
                      @ \o Flags(Len(events'[t]) - Len(events[t]), is_executing)]
    /\ UNCHANGED <<smVars, is_executing, current_context, envVars, via, outcome,
                   entry_state, logged, met, stop_seen>>

\* The step's action has no handler.
StepNoHandler(t) ==
    /\ pc[t] = "loop" /\ step_index[t] < Len(plan[t])
    /\ ~HandlerFound(plan[t][step_index[t] + 1].action)
    /\ \E h \in HandlerBehaviours : DoStep(t, h)

\* The handler's validate returns (False, msg).
StepInvalid(t) ==
    /\ pc[t] = "loop" /\ step_index[t] < Len(plan[t])
    /\ HandlerFound(plan[t][step_index[t] + 1].action)
    /\ \E h \in HandlerBehaviours : ~h.valid /\ DoStep(t, h)

\* The handler's execute returns an ActionResult with success=False.
StepFails(t) ==
    /\ pc[t] = "loop" /\ step_index[t] < Len(plan[t])
    /\ HandlerFound(plan[t][step_index[t] + 1].action)
    /\ \E h \in HandlerBehaviours : h.valid /\ h.exec = "failure" /\ DoStep(t, h)

\* The handler's execute raises.
StepRaises(t) ==
    /\ pc[t] = "loop" /\ step_index[t] < Len(plan[t])
    /\ HandlerFound(plan[t][step_index[t] + 1].action)
    /\ \E h \in HandlerBehaviours : h.valid /\ h.exec = "raised" /\ DoStep(t, h)

\* The handler's execute returns an ActionResult with success=True.
StepSucceeds(t) ==
    /\ pc[t] = "loop" /\ step_index[t] < Len(plan[t])
    /\ HandlerFound(plan[t][step_index[t] + 1].action)
    /\ \E h \in HandlerBehaviours : h.valid /\ h.exec = "success" /\ DoStep(t, h)

\* executor.py:129, 142-143: the loop has gone through every step.
LoopExit(t) ==
    /\ pc[t] = "loop"
    /\ step_index[t] = Len(plan[t]) \/ Cancelled(is_executing)
    /\ plan_success' = [plan_success EXCEPT ![t] = PlanSucceeded(failure_reason[t])]
    /\ pc' = [pc EXCEPT ![t] = "finally"]
    /\ UNCHANGED <<smVars, is_executing, current_context, envVars, via, plan,
                   step_index, failure_reason, context, elapsed, events, calls,
                   outcome, entry_state, logged, flag_at, met, stop_seen>>

(***************************************************************************)
(* action/executor.py: the `finally:` of execute_plan; action/debug/logger *)
(***************************************************************************)
\* ExecutionLogger._rotate_if_needed reads self._log_data['execution'], a key
\* _load_or_create_log neither requires nor creates (the list it keeps is
\* 'executions'): KeyError unless the stored log happens to hold that key.
\* log_execution calls it before it saves, and lets the error through.
log_execution_raises(keys) == "execution" \notin keys

\* A `finally:` block that clears the flag before it emits the terminal event.
ClearedFirst(executing) == FALSE

\* executor.py:157-183: the terminal event is emitted at lines 157-178 and
\* self._is_executing is assigned False at line 183, so the subscribers of
\* the terminal event find the flag as the run had it.
FlagAtTerminalEvent(executing) == executing

\* A `finally:` block that does not call the logger.
NotLogged(success, reason, steps, sent) == << >>

\* executor.py:151-155: the one call self._logger.log_execution(context=...,
\* success=plan_success, failure_reason=failure_reason), with the number of
\* steps attempted and of events emitted when it is made.
LogExecution(success, reason, steps, sent) ==
    <<[success |-> success, failure_reason |-> reason, steps |-> steps,
       emitted |-> sent]>>

\* A `finally:` block that clears the flag although the logger raised.
ClearedAnyway(executing) == FALSE

\* executor.py:151-183: the exception of log_execution leaves the `finally:`
\* block at line 151, so the assignment at line 183 is not reached and
\* self._is_executing is what it was.
FlagAfterLogRaises(executing) == executing

\* executor.py:151-155: log_execution raises, and with it the rest of the
\* `finally:` block is skipped and the exception leaves execute_plan.
LogRaises(t) ==
    /\ pc[t] = "finally"
    /\ log_execution_raises(log_keys)
    /\ is_executing' = FlagAfterLogRaises(is_executing)
    /\ logged' = [logged EXCEPT ![t] =
                     @ \o LogExecution(plan_success[t], failure_reason[t],
                                       Len(calls[t]), Len(events[t]))]
    /\ pc' = [pc EXCEPT ![t] = "done"]
    /\ outcome' = [outcome EXCEPT ![t] = "raised"]
    /\ UNCHANGED <<smVars, current_context, envVars, via, plan,
                   step_index, failure_reason, plan_success, context, elapsed, events,
                   calls, entry_state, flag_at, met, stop_seen>>

\* The terminal event of a run: executor.py:157-178.
TerminalEvent(success, reason) ==
    IF success THEN Ev("PLAN_COMPLETED", -1, NoMsg, None)
    ELSE Ev("PLAN_FAILED", -1, reason, None)

\* The state execute_plan asks the state machine for at the end, executor.py:180.
FinalState == "IDLE"

\* executor.py:151-190: the record is logged, the terminal event emitted, the
\* state machine asked for IDLE, the executor's fields cleared, and
\* execute_plan returns plan_success.
Cleanup(t) ==
    /\ pc[t] = "finally"
    /\ ~log_execution_raises(log_keys)
    /\ logged' = [logged EXCEPT ![t] =
                     @ \o LogExecution(plan_success[t], failure_reason[t],
                                       Len(calls[t]), Len(events[t]))]
    /\ events' = [events EXCEPT ![t] =
                     Append(@, TerminalEvent(plan_success[t], failure_reason[t]))
                     \o StateEvents(FinalState)]
    /\ flag_at' = [flag_at EXCEPT ![t] =
                      Append(@, FlagAtTerminalEvent(is_executing))
                      \o Flags(Len(StateEvents(FinalState)), is_executing)]
    /\ CallSetState(FinalState)
    /\ current_context' = None
    /\ is_executing' = FALSE
    /\ pc' = [pc EXCEPT ![t] = "done"]
    /\ outcome' = [outcome EXCEPT ![t] = IF plan_success[t] THEN "True" ELSE "False"]
    /\ UNCHANGED <<envVars, via, plan, step_index, failure_reason, plan_success,
                   context, elapsed, calls, entry_state, met, stop_seen>>

\* The call is over: its locals go away (the caller keeps the outcome).
Return(t) ==
    /\ pc[t] = "done"
    /\ EnterCall(t, NoPlan, None, "idle")
    /\ UNCHANGED <<smVars, is_executing, current_context, envVars, outcome>>

\* The caller of a call that is over calls execute_plan again with the same
\* Plan object: the steps are as the first call left them, and so is the
\* ExecutionContext object the first call built, until the new call builds
\* its own.
ExecuteAgain(t) ==
    /\ pc[t] = "done"
    /\ plan[t] # NoPlan
    /\ pc' = [pc EXCEPT ![t] = "checked"]
    /\ via' = [via EXCEPT ![t] = "direct"]
    /\ step_index' = [step_index EXCEPT ![t] = 0]
    /\ failure_reason' = [failure_reason EXCEPT ![t] = NoMsg]
    /\ plan_success' = [plan_success EXCEPT ![t] = FALSE]
    /\ elapsed' = [elapsed EXCEPT ![t] = 0]
    /\ events' = [events EXCEPT ![t] = << >>]
    /\ calls' = [calls EXCEPT ![t] = << >>]
    /\ entry_state' = [entry_state EXCEPT ![t] = None]
    /\ logged' = [logged EXCEPT ![t] = << >>]
    /\ flag_at' = [flag_at EXCEPT ![t] = << >>]
    /\ met' = [met EXCEPT ![t] = IF pc'[t] = "checked"
                                 THEN {u \in Threads \ {t} : Running(u)} ELSE {}]
    /\ stop_seen' = [stop_seen EXCEPT ![t] = FALSE]
    /\ outcome' = [outcome EXCEPT ![t] = None]
    /\ UNCHANGED <<smVars, is_executing, current_context, envVars, plan, context>>

\* A stop() that takes _on_plan_created off the bus.
Unsubscribed(was) == FALSE

\* executor.py:94-96: stop() assigns self._is_executing and prints; the
\* subscription start() made (executor.py:91) stays.
SubscribedAfterStop(was) == was

\* PlanExecutor.stop, executor.py:94-96.
Stop ==
    /\ is_executing' = FALSE
    /\ subscribed' = SubscribedAfterStop(subscribed)
    /\ stop_seen' = [t \in Threads |-> stop_seen[t] \/ Running(t)]
    /\ UNCHANGED <<smVars, current_context, log_keys, smcVars, busVars, ctxVars,
                   regVars, histVars, pc, via, plan, step_index, failure_reason, plan_success,
                   context, elapsed, events, calls, entry_state, logged, flag_at, met,
                   outcome>>

(***************************************************************************)
(* core/state.py: set_state called by the rest of the agent                *)
(***************************************************************************)
SetState(new) ==
    /\ CallSetState(new)
    /\ UNCHANGED <<is_executing, current_context, envVars, pc, via, runVars, outcome>>

(***************************************************************************)
(* Specifications                                                          *)
(***************************************************************************)
\* No thread is inside the executor.
Quiescent == \A t \in Threads : pc[t] = "idle"

\* The executor as the agent drives it: one thread delivers PLAN_CREATED or
\* calls execute_plan, and between two calls the rest of the agent moves the
\* state machine or stops the executor.
Next ==
    \/ \E p \in Plans : OnPlanCreatedDropped("t1", p)
    \/ \E p \in Plans : OnPlanCreatedAccepted("t1", p)
    \/ OnPlanCreatedMissing("t1")
    \/ \E p \in Plans : CallExecutePlan("t1", p)
    \/ Begin("t1")
    \/ Timeout("t1")
    \/ StepNoHandler("t1")
    \/ StepInvalid("t1")
    \/ StepFails("t1")
    \/ StepRaises("t1")
    \/ StepSucceeds("t1")
    \/ LoopExit("t1")
    \/ LogRaises("t1")
    \/ Cleanup("t1")
    \/ Return("t1")
    \/ (Quiescent /\ Stop)
    \/ \E s \in AgentState : Quiescent /\ SetState(s)

Spec == Init /\ [][Next]_vars

\* One thread calls execute_plan while stop() is called at any moment, from
\* a subscriber of the run's events or from another thread.
NextStop ==
    \/ \E p \in Plans : CallExecutePlan("t1", p)
    \/ Begin("t1")
    \/ Timeout("t1")
    \/ StepNoHandler("t1")
    \/ StepInvalid("t1")
    \/ StepFails("t1")
    \/ StepRaises("t1")
    \/ StepSucceeds("t1")
    \/ LoopExit("t1")
    \/ LogRaises("t1")
    \/ Cleanup("t1")
    \/ Return("t1")
    \/ Stop

SpecStop == Init /\ [][NextStop]_vars

\* The steps thread t takes inside execute_plan, from its first statement to
\* its return or raise.
Run(t) ==
    \/ Begin(t)
    \/ Timeout(t)
    \/ StepNoHandler(t)
    \/ StepInvalid(t)
    \/ StepFails(t)
    \/ StepRaises(t)
    \/ StepSucceeds(t)
    \/ LoopExit(t)
    \/ LogRaises(t)
    \/ Cleanup(t)

\* The same, with a thread that keeps running: every call it makes to a
\* handler, a subscriber or the logger comes back, so the thread always takes
\* its next step.
SpecLive == SpecStop /\ WF_vars(Run("t1"))

\* The plans of the two-thread specification: at most one step.
ShortPlans == {p \in Plans : Len(p) <= 1}

\* Two threads deliver PLAN_CREATED events to the executor, each running
\* _on_plan_created (and the execute_plan it calls) on its own stack.
NextConc ==
    \E t \in Threads :
        \/ \E p \in ShortPlans : OnPlanCreatedDropped(t, p)
        \/ \E p \in ShortPlans : OnPlanCreatedAccepted(t, p)
        \/ Begin(t)
        \/ Timeout(t)
        \/ StepNoHandler(t)
        \/ StepInvalid(t)
        \/ StepFails(t)
        \/ StepRaises(t)
        \/ StepSucceeds(t)
        \/ LoopExit(t)
        \/ LogRaises(t)
        \/ Cleanup(t)
        \/ Return(t)

SpecConc == Init /\ [][NextConc]_vars

\* One pass of the loop body with a handler that takes no time.
QuickStep(t) ==
    /\ pc[t] = "loop" /\ step_index[t] < Len(plan[t])
    /\ \E h \in HandlerBehaviours : h.duration = 0 /\ DoStep(t, h)

\* The plans the overlapping callers run: whether two runs overlap does not
\* depend on what their steps do.
OverlapPlans == {<<Step("wait")>>}

\* Two threads drive one executor in every way it can be driven: PLAN_CREATED
\* deliveries, direct execute_plan calls and stop(), at any moment, with
\* handlers that take no time.
NextOverlap ==
    \/ \E t \in Threads :
           \/ \E p \in OverlapPlans : OnPlanCreatedDropped(t, p)
           \/ \E p \in OverlapPlans : OnPlanCreatedAccepted(t, p)
           \/ \E p \in OverlapPlans : CallExecutePlan(t, p)
           \/ Begin(t)
           \/ QuickStep(t)
           \/ LoopExit(t)
           \/ LogRaises(t)
           \/ Cleanup(t)
           \/ Return(t)
    \/ Stop

SpecOverlap == Init /\ [][NextOverlap]_vars

\* One caller runs plans through execute_plan, and may run a plan again.
NextRerun ==
    \/ \E p \in Plans : CallExecutePlan("t1", p)
    \/ ExecuteAgain("t1")
    \/ Begin("t1")
    \/ Timeout("t1")
    \/ StepNoHandler("t1")
    \/ StepInvalid("t1")
    \/ StepFails("t1")
    \/ StepRaises("t1")
    \/ StepSucceeds("t1")
    \/ LoopExit("t1")
    \/ LogRaises("t1")
    \/ Cleanup("t1")
    \/ Return("t1")

SpecRerun == Init /\ [][NextRerun]_vars

\* The plans that are run again: two steps at most, enough for a first run to
\* leave a window, results and variables behind.
RerunPlans == {p \in Plans : Len(p) <= 2}

\* One caller runs plans through execute_plan again and again, with handlers
\* that take no time: no run comes near the plan's time budget.
NextAgain ==
    \/ \E p \in RerunPlans : CallExecutePlan("t1", p)
    \/ ExecuteAgain("t1")
    \/ Begin("t1")
    \/ QuickStep("t1")
    \/ LoopExit("t1")
    \/ LogRaises("t1")
    \/ Cleanup("t1")
    \/ Return("t1")

SpecAgain == Init /\ [][NextAgain]_vars

(***************************************************************************)
(* core/state.py: set_state statement by statement, called from threads    *)
(***************************************************************************)
\* Longest run of set_state calls.
MaxCalls == 4

\* What the executor owns: no set_state call touches it.
execVars ==
    <<lastSetState, is_executing, current_context, log_keys, pc, via, runVars,
      outcome, subscribed>>

\* What no set_state call touches.
smFrame == <<execVars, busVars, ctxVars, regVars, histVars>>

\* A lock that excludes nobody.
LockAlwaysFree(holder) == TRUE

\* `with self._state_lock:` can be entered: no thread holds the lock.
LockFree(holder) == holder = None

\* The fields of the state machine a call can change.
Fields == <<current_state, last_state, last_transition>>

\* A thread calls set_state(new) and reaches the `with` statement.
SMCall(t, new) ==
    /\ sm_pc[t] = "idle"
    /\ now < MaxCalls
    /\ now' = now + 1
    /\ sm_pc' = [sm_pc EXCEPT ![t] = "waiting"]
    /\ sm_new' = [sm_new EXCEPT ![t] = new]
    /\ sm_ret' = [sm_ret EXCEPT ![t] = NoReturn]
    /\ UNCHANGED <<current_state, last_state, last_transition, state_lock, sm_seen,
                   sm_change, trail, sm_old, sm_emitted, sm_inner, smFrame>>

\* state.py:64: the thread takes the lock.
SMAcquire(t) ==
    /\ sm_pc[t] = "waiting"
    /\ LockFree(state_lock)
    /\ state_lock' = t
    /\ sm_seen' = [sm_seen EXCEPT ![t] = Fields]
    /\ sm_pc' = [sm_pc EXCEPT ![t] = "locked"]
    /\ UNCHANGED <<current_state, last_state, last_transition, now, sm_new, sm_ret,
                   sm_change, trail, sm_old, sm_emitted, sm_inner, smFrame>>

\* state.py:65-73: the two tests of set_state.
SMTest(t) ==
    /\ sm_pc[t] = "locked"
    /\ sm_pc' = [sm_pc EXCEPT ![t] =
                    IF sm_new[t] = current_state THEN "same"
                    ELSE IF /\ sm_new[t] \notin ForcedStates
                            /\ sm_new[t] \notin allowed_transitions(current_state)
                    THEN "blocked"
                    ELSE "allowed"]
    /\ UNCHANGED <<current_state, last_state, last_transition, now, state_lock,
                   sm_new, sm_seen, sm_ret, sm_change, trail, sm_old, sm_emitted,
                   sm_inner, smFrame>>

\* A transition nobody is told about.
NoAnnouncement(type, old_state, new_state, current) == << >>

\* state.py:82-85: the one emit of set_state, with the names of the local
\* old_state and of new_state as its data; `current` is current_state as the
\* subscribers find it.
Announcement(type, old_state, new_state, current) ==
    <<[type |-> type, old_state |-> old_state, new_state |-> new_state,
       current |-> current]>>

\* state.py:75-78: the transition is made.
SMAssign(t) ==
    /\ sm_pc[t] = "allowed"
    /\ sm_old' = [sm_old EXCEPT ![t] = current_state]
    /\ last_state' = current_state
    /\ current_state' = sm_new[t]
    /\ last_transition' = now
    /\ sm_change' = [from |-> current_state, to |-> sm_new[t]]
    /\ trail' = IF sm_new[t] = "LISTENING"
                THEN [from_listening |-> TRUE, seen |-> {}]
                ELSE IF trail.from_listening
                THEN [trail EXCEPT !.seen = @ \cup {sm_new[t]}]
                ELSE trail
    /\ sm_pc' = [sm_pc EXCEPT ![t] = "assigned"]
    /\ UNCHANGED <<now, state_lock, sm_new, sm_seen, sm_ret, sm_emitted, sm_inner, smFrame>>

\* A lock its holder can take again.
Reentrant(holder, t) == holder \in {None, t}

\* state.py:44, 64: `with self._state_lock:` on a threading.Lock can be
\* entered by thread t only when no thread holds the lock, t included.
CanEnter(holder, t) == LockFree(holder)

\* events.py:167-172 run from state.py:82: a subscriber of the transition
\* event, called by emit on the thread of the set_state that emits, calls
\* set_state(new) and reaches its `with` statement.
SMSubscriberCalls(t, new) ==
    /\ sm_pc[t] = "assigned"
    /\ sm_inner[t] = None
    /\ sm_inner' = [sm_inner EXCEPT ![t] = new]
    /\ UNCHANGED <<current_state, last_state, last_transition, now, state_lock,
                   sm_pc, sm_new, sm_seen, sm_ret, sm_change, trail, sm_old,
                   sm_emitted, smFrame>>

\* state.py:81-85: the transition is announced; emit returns once every
\* subscriber has returned, so after the set_state a subscriber called has
\* entered its `with` block and left it.
SMEmit(t) ==
    /\ sm_pc[t] = "assigned"
    /\ sm_inner[t] # None => CanEnter(state_lock, t)
    /\ sm_emitted' = [sm_emitted EXCEPT ![t] =
                         @ \o Announcement(IF sm_new[t] = "IDLE" THEN "AGENT_STARTED"
                                           ELSE "WINDOW_CHANGED",
                                           sm_old[t], sm_new[t], current_state)]
    /\ sm_pc' = [sm_pc EXCEPT ![t] = "changed"]
    /\ UNCHANGED <<current_state, last_state, last_transition, now, state_lock,
                   sm_new, sm_seen, sm_ret, sm_change, trail, sm_old, sm_inner, smFrame>>

\* state.py:66, 73, 87: the call returns and the `with` block is left.
SMReturn(t) ==
    /\ sm_pc[t] \in {"same", "blocked", "changed"}
    /\ state_lock' = IF state_lock = t THEN None ELSE state_lock
    /\ sm_ret' = [sm_ret EXCEPT ![t] =
                     [kind |-> sm_pc[t], was |-> sm_seen[t][1], to |-> sm_new[t],
                      ok |-> sm_pc[t] # "blocked",
                      untouched |-> sm_seen[t] = Fields,
                      events |-> sm_emitted[t]]]
    /\ sm_old' = [sm_old EXCEPT ![t] = None]
    /\ sm_emitted' = [sm_emitted EXCEPT ![t] = << >>]
    /\ sm_seen' = [sm_seen EXCEPT ![t] = << >>]
    /\ sm_new' = [sm_new EXCEPT ![t] = None]
    /\ sm_pc' = [sm_pc EXCEPT ![t] = "idle"]
    /\ UNCHANGED <<current_state, last_state, last_transition, now, sm_change,
                   trail, sm_inner, smFrame>>

\* Threads call set_state with any states, in any interleaving.
NextSM ==
    \E t \in Threads :
        \/ \E s \in AgentState : SMCall(t, s)
        \/ SMAcquire(t)
        \/ SMTest(t)
        \/ SMAssign(t)
        \/ SMEmit(t)
        \/ SMReturn(t)

InitSM == Init /\ log_keys = BaseLogKeys

SpecSM == InitSM /\ [][NextSM]_vars

\* The same threads, with subscribers of the transition events that call
\* set_state themselves.
NextReentrant ==
    \/ NextSM
    \/ \E t \in Threads : \E s \in AgentState : SMSubscriberCalls(t, s)

SpecReentrant == InitSM /\ [][NextReentrant]_vars

(***************************************************************************)
(* core/events.py: EventBus                                                *)
(***************************************************************************)
\* The capacity of the event history in the model (_max_history, which
\* events.py:131 sets to 100).
MaxHistory == 2
\* Most subscriptions made in a run.
MaxSubs == 2
\* Deepest nesting of emit calls (an emit made by a handler is at depth 2).
MaxDepth == 2
\* Most events emitted in a run: enough to overflow the history.
MaxEmits == MaxHistory + 1

\* The type of the events the client and the handlers emit; handlers are
\* subscribed to every member of EventType.
EmittedTypes == {"PLAN_CREATED"}

\* The callables that are subscribed, numbered in the order of their
\* subscription: every subscription is of a callable not subscribed before.
HandlerIds == 1..MaxSubs

\* What a handler raises: exceptions derived from Exception.
HandlerErrors == {"ValueError"}

\* What neither the executor nor the state machine's callers touch.
busFrame == <<current_state, last_state, smcVars, execVars, ctxVars, regVars, histVars>>

\* A history that keeps its oldest events.
Oldest(h, n) == IF Len(h) > n THEN SubSeq(h, 1, n) ELSE h

\* events.py:160-161: self._event_history[-self._max_history:] when the
\* history is longer than the capacity.
Latest(h, n) == IF Len(h) > n THEN SubSeq(h, Len(h) - n + 1, Len(h)) ELSE h

\* A dispatch that calls the global handlers first.
GlobalFirst(hs, gs) == gs \o hs

\* events.py:168: `handlers + global_handlers`.
DispatchList(hs, gs) == hs \o gs

\* A dispatch in which a handler's exception is let through.
NotCaught(e) == FALSE

\* events.py:171: `except Exception as e:` around the handler call.
Caught(e) == e \in HandlerErrors

\* A dispatch loop that runs inside the `with self._handler_lock:` block.
HeldWhileInvoking == TRUE

\* events.py:164-168: the `with` block ends before the loop over handlers.
LockHeldWhileInvoking == FALSE

\* list.remove(handler): the list without the first entry of handler h.
RemoveFirst(q, h) ==
    LET hits == {k \in 1..Len(q) : q[k].h = h}
    IN IF hits = {} THEN q
       ELSE LET k == CHOOSE x \in hits : \A y \in hits : x <= y
            IN SubSeq(q, 1, k - 1) \o SubSeq(q, k + 1, Len(q))

\* list(...) at events.py:165-166: the copy, each entry marked with the list
\* it was taken from.
Copied(q, kind) == [k \in 1..Len(q) |-> [h |-> q[k].h, at |-> q[k].at, kind |-> kind]]

\* The innermost emit call in progress.
Top == stack[Len(stack)]
WithTop(f) == [stack EXCEPT ![Len(stack)] = f]
Popped == SubSeq(stack, 1, Len(stack) - 1)

\* Who can call the bus: the client when no emit is in progress, otherwise
\* the handler that is running.
CallerReady == IF stack = << >> THEN TRUE ELSE Top.phase = "in_handler"

\* The stack after the running handler (if any) has made a call of the bus;
\* `nested` is the kind of the last call it made.
Noted(op) ==
    IF stack = << >> THEN stack ELSE WithTop([Top EXCEPT !.nested = op])

\* EventBus.subscribe, events.py:135-140.
Subscribe(ty, h) ==
    /\ CallerReady
    /\ sub_clock < MaxSubs
    /\ LockFree(handler_lock)
    /\ bus_handlers' = [bus_handlers EXCEPT ![ty] = Append(@, [h |-> h, at |-> sub_clock + 1])]
    /\ sub_clock' = sub_clock + 1
    /\ stack' = Noted("subscribe")
    /\ UNCHANGED <<global_handlers, handler_lock, event_history, emitted,
                   busFrame>>

\* EventBus.subscribe_all, events.py:142-145.
SubscribeAll(h) ==
    /\ CallerReady
    /\ sub_clock < MaxSubs
    /\ LockFree(handler_lock)
    /\ global_handlers' = Append(global_handlers, [h |-> h, at |-> sub_clock + 1])
    /\ sub_clock' = sub_clock + 1
    /\ stack' = Noted("subscribe_all")
    /\ UNCHANGED <<bus_handlers, handler_lock, event_history, emitted,
                   busFrame>>

\* EventBus.unsubscribe, events.py:147-154.
Unsubscribe(ty, h) ==
    /\ CallerReady
    /\ LockFree(handler_lock)
    /\ bus_handlers' = [bus_handlers EXCEPT ![ty] = RemoveFirst(@, h)]
    /\ stack' = Noted("unsubscribe")
    /\ UNCHANGED <<global_handlers, handler_lock, event_history, emitted, sub_clock,
                   busFrame>>

\* EventBus.emit, events.py:159-161: the event goes into the history.
EmitStore(ty) ==
    /\ CallerReady
    /\ emitted < MaxEmits
    /\ Len(stack) < MaxDepth
    /\ LET ev == [type |-> ty, id |-> emitted + 1]
       IN /\ event_history' = Latest(Append(event_history, ev), MaxHistory)
          /\ stack' = Append(Noted("emit"),
                             [ev |-> ev, list |-> << >>, next |-> 0, phase |-> "stored",
                              nested |-> None, log |-> << >>])
    /\ emitted' = emitted + 1
    /\ UNCHANGED <<bus_handlers, global_handlers, handler_lock, sub_clock,
                   busFrame>>

\* events.py:164-166: the two lists are copied under the lock.
EmitCopy ==
    /\ stack # << >> /\ Top.phase = "stored"
    /\ LockFree(handler_lock)
    /\ stack' = WithTop([Top EXCEPT
                    !.list = DispatchList(Copied(bus_handlers[Top.ev.type], "type"),
                                          Copied(global_handlers, "global")),
                    !.phase = "dispatch"])
    /\ handler_lock' = IF LockHeldWhileInvoking THEN "held" ELSE None
    /\ UNCHANGED <<bus_handlers, global_handlers, event_history, emitted, sub_clock,
                   busFrame>>

\* The lists of the bus as they are now, in the order of a dispatch.
LiveLists ==
    DispatchList(Copied(bus_handlers[Top.ev.type], "type"),
                 Copied(global_handlers, "global"))

\* A loop that walks the lists of the bus themselves.
Live(snapshot, live) == live

\* events.py:165-168: the loop walks `handlers + global_handlers`, the
\* copies made by list(...) inside the `with` block, not the lists of the bus.
Dispatched(snapshot, live) == snapshot

\* events.py:168-170: the next handler of the copy is called.
Invoke ==
    /\ stack # << >> /\ Top.phase = "dispatch"
    /\ Top.next < Len(Dispatched(Top.list, LiveLists))
    /\ LET e == Dispatched(Top.list, LiveLists)[Top.next + 1]
           call == [h |-> e.h, at |-> e.at, kind |-> e.kind,
                    raised |-> FALSE,
                    stored |-> \E k \in 1..Len(event_history) :
                                   event_history[k] = Top.ev]
       IN stack' = WithTop([Top EXCEPT !.phase = "in_handler",
                                       !.log = Append(@, call)])
    /\ UNCHANGED <<bus_handlers, global_handlers, handler_lock, event_history, emitted,
                   sub_clock, busFrame>>

\* The running handler returns.
HandlerReturns ==
    /\ stack # << >> /\ Top.phase = "in_handler"
    /\ stack' = WithTop([Top EXCEPT !.next = @ + 1, !.phase = "dispatch"])
    /\ UNCHANGED <<bus_handlers, global_handlers, handler_lock, event_history, emitted,
                   sub_clock, busFrame>>

\* The running handler raises e (or lets through what an emit it made let
\* through).  events.py:171-172 catches it and the loop goes on; uncaught, it
\* would end this emit and reach the emit's caller.
HandlerRaises(e) ==
    /\ stack # << >> /\ Top.phase \in {"in_handler", "unwinding"}
    /\ IF Caught(e)
       THEN /\ stack' = WithTop([Top EXCEPT !.next = @ + 1, !.phase = "dispatch",
                                            !.log[Len(Top.log)].raised = TRUE])
            /\ UNCHANGED handler_lock
       ELSE /\ stack' = IF Len(stack) = 1 THEN << >>
                        ELSE [Popped EXCEPT ![Len(stack) - 1].phase = "unwinding"]
            /\ handler_lock' = None
    /\ UNCHANGED <<bus_handlers, global_handlers, event_history, emitted, sub_clock,
                   busFrame>>

\* events.py:168: the loop is through; emit returns to its caller.
EmitReturn ==
    /\ stack # << >> /\ Top.phase = "dispatch"
    /\ Top.next >= Len(Dispatched(Top.list, LiveLists))
    /\ stack' = Popped
    /\ handler_lock' = None
    /\ UNCHANGED <<bus_handlers, global_handlers, event_history, emitted, sub_clock,
                   busFrame>>

\* One thread subscribes, unsubscribes and emits; the handlers it reaches do
\* the same on the same bus.
NextBus ==
    \/ \E ty \in EventType : Subscribe(ty, sub_clock + 1)
    \/ SubscribeAll(sub_clock + 1)
    \/ \E ty \in EventType, h \in HandlerIds : Unsubscribe(ty, h)
    \/ \E ty \in EmittedTypes : EmitStore(ty)
    \/ EmitCopy
    \/ Invoke
    \/ HandlerReturns
    \/ \E e \in HandlerErrors : HandlerRaises(e)
    \/ EmitReturn

SpecBus == InitSM /\ [][NextBus]_vars

(***************************************************************************)
(* core/events.py: the history lines of emit, run by two threads           *)
(***************************************************************************)
\* Most events emitted by the two threads together: enough to fill the
\* history and then emit once from each thread.
MaxRaceEmits == MaxHistory + 2

\* What the history lines of emit leave alone.
histFrame ==
    <<current_state, last_state, smcVars, execVars, ctxVars, regVars, bus_handlers,
      global_handlers, handler_lock, stack, sub_clock>>

\* The list object self._event_history is bound to at this moment.
LiveRef == [live |-> TRUE, content |-> << >>]

\* The contents of the list object thread t holds: those of the list the
\* attribute is bound to, or those of a list it was rebound away from.
ListRead(t) == IF h_ref[t].live THEN event_history ELSE h_ref[t].content

\* emit(event) is called on thread t.
HCall(t, ty) ==
    /\ h_pc[t] = "idle"
    /\ emitted < MaxRaceEmits
    /\ emitted' = emitted + 1
    /\ h_ev' = [h_ev EXCEPT ![t] = [type |-> ty, id |-> emitted + 1]]
    /\ h_pc' = [h_pc EXCEPT ![t] = "append_load"]
    /\ UNCHANGED <<event_history, h_ref, h_tmp, h_order, histFrame>>

\* events.py:159-161: `self._event_history` is evaluated, once in each of
\* the three lines (twice in the last); no lock is held.
HLoad(t) ==
    /\ h_pc[t] \in {"append_load", "len_load", "slice_load"}
    /\ h_ref' = [h_ref EXCEPT ![t] = LiveRef]
    /\ h_pc' = [h_pc EXCEPT ![t] = CASE h_pc[t] = "append_load" -> "append"
                                      [] h_pc[t] = "len_load"    -> "len"
                                      [] h_pc[t] = "slice_load"  -> "slice"]
    /\ UNCHANGED <<event_history, emitted, h_ev, h_tmp, h_order, histFrame>>

\* events.py:159: .append(event) on the list object that was read.
HAppend(t) ==
    /\ h_pc[t] = "append"
    /\ event_history' = IF h_ref[t].live THEN Append(event_history, h_ev[t])
                        ELSE event_history
    /\ h_order' = Append(h_order, h_ev[t].id)
    /\ h_ref' = [h_ref EXCEPT ![t] = NoRef]
    /\ h_pc' = [h_pc EXCEPT ![t] = "len_load"]
    /\ UNCHANGED <<emitted, h_ev, h_tmp, histFrame>>

\* events.py:160: len(...) > self._max_history on the list object that was
\* read; when it is not, emit goes on to its handlers.
HLen(t) ==
    /\ h_pc[t] = "len"
    /\ h_pc' = [h_pc EXCEPT ![t] = IF Len(ListRead(t)) > MaxHistory THEN "slice_load"
                                    ELSE "idle"]
    /\ h_ref' = [h_ref EXCEPT ![t] = NoRef]
    /\ UNCHANGED <<event_history, emitted, h_ev, h_tmp, h_order, histFrame>>

\* events.py:161: [-self._max_history:] makes a new list out of the list
\* object that was read.
HSlice(t) ==
    /\ h_pc[t] = "slice"
    /\ h_tmp' = [h_tmp EXCEPT ![t] = Latest(ListRead(t), MaxHistory)]
    /\ h_ref' = [h_ref EXCEPT ![t] = NoRef]
    /\ h_pc' = [h_pc EXCEPT ![t] = "store"]
    /\ UNCHANGED <<event_history, emitted, h_ev, h_order, histFrame>>

\* events.py:161: `self._event_history = ...` binds the attribute to the new
\* list; a thread that holds the list the attribute was bound to goes on
\* holding that list, which the bus no longer reads.
HStore(t) ==
    /\ h_pc[t] = "store"
    /\ event_history' = h_tmp[t]
    /\ h_ref' = [u \in Threads |->
                    IF u # t /\ h_ref[u].live
                    THEN [live |-> FALSE, content |-> event_history]
                    ELSE h_ref[u]]
    /\ h_tmp' = [h_tmp EXCEPT ![t] = << >>]
    /\ h_pc' = [h_pc EXCEPT ![t] = "idle"]
    /\ UNCHANGED <<emitted, h_ev, h_order, histFrame>>

\* Two threads emit, each of them event after event.
NextHistory ==
    \E t \in Threads :
        \/ \E ty \in EmittedTypes : HCall(t, ty)
        \/ HLoad(t)
        \/ HAppend(t)
        \/ HLen(t)
        \/ HSlice(t)
        \/ HStore(t)

SpecHistory == InitSM /\ [][NextHistory]_vars

(***************************************************************************)
(* action/context.py: the element cache of an ExecutionContext             *)
(***************************************************************************)
\* What no call on the context touches.
ctxFrame == <<current_state, last_state, smcVars, execVars, busVars, regVars, histVars>>

\* The record of a call: the window and cache it found, and for a name the
\* reference the cache held under it.
CtxCall(op, arg, held, result, raised) ==
    [op |-> op, arg |-> arg, held |-> held, window |-> ectx.current_window,
     elements |-> ectx.found_elements, result |-> result, raised |-> raised]

\* The reference the cache holds under a name, None if there is none.
Held(name) ==
    LET found == Lookup(ectx, Normalized(name))
    IN IF found = {} THEN None ELSE (CHOOSE e \in found : TRUE)[2]

\* A handler calls context.set_current_window(w), w a window or None.
SetCurrentWindow(w) ==
    /\ ectx' = set_current_window(ectx, w)
    /\ ctx_last' = CtxCall("set_current_window", w, None, None, None)
    /\ UNCHANGED ctxFrame

\* A handler calls context.store_element(name, reference).
StoreElement(name, reference) ==
    /\ ectx' = store_element(ectx, name, reference)
    /\ ctx_last' = CtxCall("store_element", name, Held(name), None, None)
    /\ UNCHANGED ctxFrame

\* A handler calls context.get_element(name).
GetElement(name) ==
    LET r == get_element(ectx, name)
    IN /\ ectx' = r.ctx
       /\ ctx_last' = CtxCall("get_element", name, Held(name), r.result, r.raised)
       /\ UNCHANGED ctxFrame

NextCtx ==
    \/ \E w \in Windows \cup {None} : SetCurrentWindow(w)
    \/ \E name \in ElementNames, reference \in ElementReferences :
           StoreElement(name, reference)
    \/ \E name \in ElementNames : GetElement(name)

SpecCtx == InitSM /\ [][NextCtx]_vars

(***************************************************************************)
(* action/executor.py: registering handlers and calling them directly      *)
(***************************************************************************)
\* The most handlers the loaders supply at startup.
MaxLoaded == 3

\* What no registration and no direct call touches.
regFrame == <<current_state, last_state, smcVars, execVars, busVars, ctxVars, histVars>>

\* One turn of the loop at executor.py:68-72 for the handler the loaders
\* supplied next.
MergeHandler(handler) ==
    /\ reg_phase = "startup"
    /\ loaded < MaxLoaded
    /\ LET m == merge_handler(_handlers, handler)
       IN /\ _handlers' = m.registry
          /\ reg_last' = m.last
    /\ loaded' = loaded + 1
    /\ UNCHANGED <<reg_phase, direct, regFrame>>

\* The loop is over: executor.py:74-76, the constructor goes on.
StartupDone ==
    /\ reg_phase = "startup"
    /\ reg_phase' = "ready"
    /\ UNCHANGED <<_handlers, loaded, reg_last, direct, regFrame>>

\* register_handler(handler) on the constructed executor.
RegisterHandler(handler) ==
    /\ reg_phase = "ready"
    /\ LET m == register_handler(_handlers, handler)
       IN /\ _handlers' = m.registry
          /\ reg_last' = m.last
    /\ UNCHANGED <<reg_phase, loaded, direct, regFrame>>

\* execute_single_action(action, parameters) on the constructed executor.
ExecuteSingleAction(action, h) ==
    /\ reg_phase = "ready"
    /\ direct' = execute_single_action(_handlers, action, h)
    /\ UNCHANGED <<_handlers, reg_phase, loaded, reg_last, regFrame>>

NextReg ==
    \/ \E handler \in ActionHandlers : MergeHandler(handler)
    \/ StartupDone
    \/ \E handler \in ActionHandlers : RegisterHandler(handler)
    \/ \E action \in StepActions, h \in HandlerBehaviours : ExecuteSingleAction(action, h)

SpecReg == InitSM /\ [][NextReg]_vars

(***************************************************************************)
(* Properties                                                              *)
(***************************************************************************)
\* The thread of Spec.
T == "t1"

\* The number of events of a type the call of thread t has emitted.
CountEv(t, type) ==
    Cardinality({k \in 1..Len(events[t]) : events[t][k].type = type})

\* The plan protocol events of the call of thread t, in order (the state
\* machine's transition events and ERROR events left out).
PlanEventTypes ==
    {"PLAN_STEP_STARTED", "PLAN_STEP_COMPLETED", "PLAN_STEP_FAILED",
     "PLAN_COMPLETED", "PLAN_FAILED"}
IsPlanEvent(e) == e.type \in PlanEventTypes
PlanEvents(t) == SelectSeq(events[t], IsPlanEvent)

\* Some event of the call of thread t is about the step with (0-based) index j.
HasStepEvent(t, j) ==
    \E k \in 1..Len(events[t]) : events[t][k].step_index = j

\* The step at (1-based) position k of thread t's plan was never started.
Untouched(t, k) ==
    /\ plan[t][k].status = "PENDING"
    /\ ~plan[t][k].started_at
    /\ Len(calls[t]) < k
    /\ ~HasStepEvent(t, k - 1)

\* The call of thread t is over: execute_plan has returned or raised.
Ended(t) == pc[t] = "done"

\* C1: fail-fast.  If the execute of step i returns success=false, no later
\* step is started (no event, no validate, no execute, status PENDING) and
\* execute_plan returns false.
C1_FailFast ==
    \A i \in 1..Len(calls[T]) :
        calls[T][i].exec = "failure" =>
            /\ \A k \in (i + 1)..Len(plan[T]) : Untouched(T, k)
            /\ pc[T] # "loop"
            /\ Ended(T) => outcome[T] = "False"

\* The part of C1 that holds whatever the logger does: after a failed execute
\* no later step is started and the call never returns true.
FailFastNoLaterStep ==
    \A i \in 1..Len(calls[T]) :
        calls[T][i].exec = "failure" =>
            /\ \A k \in (i + 1)..Len(plan[T]) : Untouched(T, k)
            /\ pc[T] # "loop"
            /\ ~plan_success[T]
            /\ outcome[T] # "True"

\* C2: if a handler's execute raises, the exception stays inside the step: the
\* step ends FAILED with the captured message as its error, a
\* PLAN_STEP_FAILED is emitted for it, and execute_plan returns false.
C2_RaiseIsCaptured ==
    \A i \in 1..Len(calls[T]) :
        calls[T][i].exec = "raised" =>
            /\ plan[T][i].status = "FAILED"
            /\ \E e \in HandlerExceptions : plan[T][i].error = ExceptionMsg(e)
            /\ \E k \in 1..Len(events[T]) :
                   /\ events[T][k].type = "PLAN_STEP_FAILED"
                   /\ events[T][k].step_index = i - 1
            /\ Ended(T) => outcome[T] = "False"

\* The message parts of an error.
Parts(msg) == {msg[k] : k \in 1..Len(msg)}

\* C3: if validate returns (false, msg) for a step, execute is never invoked
\* for it, the step ends FAILED with an error containing msg, nothing is
\* appended to context.step_results, and the plan fails.
C3_InvalidNeverExecutes ==
    \A i \in 1..Len(calls[T]) :
        calls[T][i].validation = "invalid" =>
            /\ calls[T][i].execute = 0
            /\ plan[T][i].status = "FAILED"
            /\ calls[T][i].vmsg \in Parts(plan[T][i].error)
            /\ Len(context[T].step_results) = i - 1
            /\ ~plan[T][i].result
            /\ pc[T] # "loop"
            /\ ~plan_success[T]
            /\ failure_reason[T] = plan[T][i].error
            /\ outcome[T] # "True"

\* C3, reached: a call has ended on a second step whose validate failed.
C3_Witness ==
    /\ Ended(T)
    /\ Len(calls[T]) = 2
    /\ calls[T][2].validation = "invalid"
    /\ calls[T][1].exec = "success"

\* C4: always reset.  When execute_plan is over, whatever the outcome and
\* whatever the state machine's state was when it was called, is_executing is
\* false, current_context is None and the state machine is in IDLE.
C4_AlwaysReset ==
    Ended(T) =>
        /\ ~is_executing
        /\ current_context = None
        /\ current_state = "IDLE"

\* The run of thread t was started by _on_plan_created and is inside
\* execute_plan.
InEventRun(t) == via[t] = "event" /\ Running(t)

\* C5: at most one plan executes at a time.  No two execute_plan runs started
\* by _on_plan_created overlap, also when two PLAN_CREATED events are emitted
\* in close succession from different threads.
C5_AtMostOneRun ==
    \A t, u \in Threads : (InEventRun(t) /\ InEventRun(u)) => t = u

\* The part of C5 that holds: a PLAN_CREATED that finds is_executing set is
\* dropped, and nothing of it is kept for later.
DroppedIsNotQueued ==
    \A t \in Threads :
        outcome[t] = "dropped" =>
            /\ pc[t] = "idle"
            /\ plan[t] = NoPlan
            /\ via[t] = None

\* The last plan event of the call of thread t.
LastPlanEvent(t) == PlanEvents(t)[Len(PlanEvents(t))]

\* Every step of thread t's plan was executed and every execute succeeded.
AllStepsSucceeded(t) ==
    /\ Len(calls[t]) = Len(plan[t])
    /\ \A k \in 1..Len(calls[t]) : calls[t][k].exec = "success"

\* C6: every execute_plan call emits exactly one terminal event: one
\* PLAN_COMPLETED and no PLAN_FAILED when it returns true, one PLAN_FAILED
\* carrying the failure reason and no PLAN_COMPLETED when it returns false;
\* when all steps succeed every step ends COMPLETED.
C6_OneTerminalEvent ==
    Ended(T) =>
        /\ CountEv(T, "PLAN_COMPLETED") + CountEv(T, "PLAN_FAILED") = 1
        /\ outcome[T] = "True" =>
               CountEv(T, "PLAN_COMPLETED") = 1 /\ CountEv(T, "PLAN_FAILED") = 0
        /\ outcome[T] = "False" =>
               /\ CountEv(T, "PLAN_COMPLETED") = 0 /\ CountEv(T, "PLAN_FAILED") = 1
               /\ LastPlanEvent(T) = Ev("PLAN_FAILED", -1, failure_reason[T], None)
        /\ AllStepsSucceeded(T) =>
               \A k \in 1..Len(plan[T]) : plan[T][k].status = "COMPLETED"

\* The part of C6 that holds whatever the logger does: a call that returns
\* has emitted exactly the terminal event of its return value, as its last
\* plan event.
TerminalEventOfReturn ==
    (Ended(T) /\ outcome[T] \in {"True", "False"}) =>
        /\ CountEv(T, "PLAN_COMPLETED") = (IF outcome[T] = "True" THEN 1 ELSE 0)
        /\ CountEv(T, "PLAN_FAILED") = (IF outcome[T] = "False" THEN 1 ELSE 0)
        /\ LastPlanEvent(T) = TerminalEvent(outcome[T] = "True", failure_reason[T])
        /\ (outcome[T] = "True") = AllStepsSucceeded(T)
        /\ outcome[T] = "True" =>
               \A k \in 1..Len(plan[T]) : plan[T][k].status = "COMPLETED"

\* The last n plan events of the call of thread t (all of them if fewer).
LastPlanEvents(t, n) ==
    LET evs == PlanEvents(t)
        from == IF Len(evs) > n THEN Len(evs) - n + 1 ELSE 1
    IN SubSeq(evs, from, Len(evs))

\* C7: for a plan with a step whose action has no registered handler,
\* execute_plan returns false; the step, once reached, ends FAILED and the
\* events PLAN_STEP_STARTED, PLAN_STEP_FAILED (naming the missing handler),
\* PLAN_FAILED are emitted in this order; a run started from IDLE ends at IDLE.
C7_MissingHandler ==
    \A k \in 1..Len(plan[T]) :
        (Ended(T) /\ ~HandlerFound(plan[T][k].action)) =>
            /\ outcome[T] = "False"
            /\ Len(calls[T]) >= k =>
                   /\ plan[T][k].status = "FAILED"
                   /\ plan[T][k].error = NoHandlerMsg(plan[T][k].action)
                   /\ LastPlanEvents(T, 3) =
                          << Ev("PLAN_STEP_STARTED", k - 1, NoMsg, None),
                             Ev("PLAN_STEP_FAILED", k - 1,
                                NoHandlerMsg(plan[T][k].action), None),
                             Ev("PLAN_FAILED", -1, NoHandlerMsg(plan[T][k].action),
                                None) >>
            /\ entry_state[T] = "IDLE" => current_state = "IDLE"

\* C8: if the elapsed time exceeds MAX_PLAN_DURATION when the loop reaches
\* step i, step i and every later step are never started, execute_plan
\* returns false and the PLAN_FAILED error is the timeout.
C8_Timeout ==
    /\ \A k \in 1..Len(calls[T]) : calls[T][k].at <= MAX_PLAN_DURATION * 1000
    /\ (pc[T] \in {"finally", "done"} /\ step_index[T] < Len(plan[T])
            /\ elapsed[T] > MAX_PLAN_DURATION * 1000 /\ Len(calls[T]) = step_index[T]) =>
           /\ \A k \in (step_index[T] + 1)..Len(plan[T]) : Untouched(T, k)
           /\ failure_reason[T] = TimeoutMsg
           /\ Ended(T) =>
                  /\ outcome[T] = "False"
                  /\ LastPlanEvent(T) = Ev("PLAN_FAILED", -1, TimeoutMsg, None)

\* The thread is inside a call (between its entry and its end).
InCall(t) == pc[t] \in {"checked", "loop", "finally", "done"}

\* C9: a Plan with zero steps has is_complete = true, and execute_plan on it
\* returns true without starting any step, emitting PLAN_COMPLETED and no
\* step event.
C9_EmptyPlan ==
    (InCall(T) /\ Len(plan[T]) = 0) =>
        /\ is_complete(plan[T])
        /\ calls[T] = << >>
        /\ Ended(T) =>
               /\ outcome[T] = "True"
               /\ PlanEvents(T) = <<Ev("PLAN_COMPLETED", -1, NoMsg, None)>>

\* C10: set_state(EXECUTING) called in IDLE returns false and leaves the
\* state IDLE; set_state(ERROR) returns true and makes the state ERROR from
\* every state, STOPPED included.
C10_SetStateGuards ==
    /\ (lastSetState.from = "IDLE" /\ lastSetState.to = "EXECUTING") =>
           ~lastSetState.ok /\ current_state = "IDLE"
    /\ lastSetState.to = "ERROR" =>
           lastSetState.ok /\ current_state = "ERROR"

\* C10, reached: set_state(ERROR) has just been accepted in STOPPED.
C10_Witness ==
    /\ lastSetState.from = "STOPPED"
    /\ lastSetState.to = "ERROR"
    /\ lastSetState.ok
    /\ current_state = "ERROR"
    /\ last_state = "STOPPED"

\* C11: over any sequence of set_state calls, also from concurrent threads,
\* every change of current_state from s to t has t in {ERROR, STOPPED} or in
\* allowed_transitions[s]; a call with new == current returns true and
\* changes nothing; a rejected call returns false and leaves current_state,
\* last_state and last_transition as they were.
C11_GuardedTransitions ==
    /\ sm_change.to # None =>
           sm_change.to \in ForcedStates \cup allowed_transitions(sm_change.from)
    /\ \A t \in Threads :
           /\ sm_ret[t].kind = "same" => sm_ret[t].ok /\ sm_ret[t].untouched
           /\ sm_ret[t].kind = "blocked" => ~sm_ret[t].ok /\ sm_ret[t].untouched
           /\ sm_ret[t].kind = "changed" => sm_ret[t].ok

\* C11, reached: after a forced change that the table does not list, one
\* thread's call has been rejected and the other's was a no-op.
C11_Witness ==
    /\ sm_change.to \in ForcedStates
    /\ sm_change.to \notin allowed_transitions(sm_change.from)
    /\ sm_ret["t1"].kind = "blocked"
    /\ sm_ret["t2"].kind = "same"

\* C12: every sequence of accepted set_state transitions that starts in
\* LISTENING and reaches EXECUTING passes through PLANNING.
C12_ViaPlanning ==
    (current_state = "EXECUTING" /\ trail.from_listening) =>
        "PLANNING" \in trail.seen

\* C12 as the table has it: every sequence of accepted transitions that
\* starts in LISTENING and reaches EXECUTING passes through THINKING and
\* enters EXECUTING from PLANNING or SPEAKING; set_state(EXECUTING) called in
\* LISTENING is rejected.
C12_ViaThinking ==
    /\ (current_state = "EXECUTING" /\ trail.from_listening) =>
           /\ "THINKING" \in trail.seen
           /\ last_state \in {"PLANNING", "SPEAKING"}
           /\ last_state \in trail.seen
    /\ \A t \in Threads :
           (sm_ret[t].was = "LISTENING" /\ sm_ret[t].to = "EXECUTING") =>
               sm_ret[t].kind = "blocked"

\* C12, reached: LISTENING, THINKING, PLANNING, EXECUTING.
C12_Witness ==
    /\ current_state = "EXECUTING"
    /\ trail = [from_listening |-> TRUE, seen |-> {"THINKING", "PLANNING", "EXECUTING"}]

\* Some event of the given type is about the step with (0-based) index j.
HasStepEventOf(t, type, j) ==
    \E k \in 1..Len(events[t]) :
        events[t][k].type = type /\ events[t][k].step_index = j

\* C13: verification is advisory.  A step whose execute returned
\* success=true ends COMPLETED and _execute_step reports success (the loop
\* goes on past it, PLAN_STEP_COMPLETED and no PLAN_STEP_FAILED is emitted
\* for it) whether verify returned verified=true or verified=false or raised;
\* the step is never the reason of a plan failure and execute ran once.
C13_VerifyIsAdvisory ==
    \A i \in 1..Len(calls[T]) :
        calls[T][i].exec = "success" =>
            /\ plan[T][i].status = "COMPLETED"
            /\ plan[T][i].error = NoMsg
            /\ calls[T][i].execute = 1
            /\ calls[T][i].verify <= 1
            /\ HasStepEventOf(T, "PLAN_STEP_COMPLETED", i - 1)
            /\ ~HasStepEventOf(T, "PLAN_STEP_FAILED", i - 1)
            /\ step_index[T] >= i
            /\ Len(calls[T]) = i => failure_reason[T] \in {NoMsg, TimeoutMsg}

\* C13, reached: a plan has returned true after one step whose verify raised
\* and one whose verify returned verified=false.
C13_Witness ==
    /\ Ended(T) /\ outcome[T] = "True"
    /\ Len(calls[T]) = 2
    /\ calls[T][1].verify_result = "raised"
    /\ calls[T][2].verify_result = "unverified"
    /\ ~plan[T][2].verified

\* How far along PENDING -> RUNNING -> {COMPLETED, FAILED} a status is.
Rank(status) ==
    CASE status = "PENDING" -> 0
      [] status = "RUNNING" -> 1
      [] OTHER -> 2

\* A step's status may go from a to b.
Forward(a, b) == a = b \/ (Rank(a) < Rank(b))

\* C14: a Step's status never regresses.  Over any sequence of executor
\* operations, also when execute_plan is called again on a Plan whose steps
\* were already executed, the status _execute_step finds goes forward to the
\* RUNNING it sets, and from there to the status the step is left with.
C14_StatusNeverRegresses ==
    \A i \in 1..Len(calls[T]) :
        /\ Forward(calls[T][i].was, "RUNNING")
        /\ Forward("RUNNING", plan[T][i].status)

\* The part of C14 that holds: in one run over a freshly planned Plan every
\* step is found PENDING and left RUNNING, COMPLETED or FAILED.
FreshStatusGoesForward ==
    \A i \in 1..Len(plan[T]) :
        /\ i <= Len(calls[T]) =>
               calls[T][i].was = "PENDING" /\ plan[T][i].status # "PENDING"
        /\ i > Len(calls[T]) => plan[T][i].status = "PENDING"

\* The emit calls in progress.
Frames == {stack[k] : k \in 1..Len(stack)}

\* C15: EventBus.emit isolates handler failures.  If a handler raises while
\* an event is dispatched, every handler after it in the dispatch list is
\* still invoked and emit returns normally: an emit call ends only when its
\* loop has called every handler of its list.
C15_HandlerFailuresIsolated ==
    [][(stack # << >> /\ Len(stack') < Len(stack)) =>
           /\ Top.phase = "dispatch"
           /\ Top.next = Len(Top.list)
           /\ Len(Top.log) = Len(Top.list)]_vars

\* C15, reached: an emit is about to return after its first handler raised
\* and its second handler was called and returned.
C15_Witness ==
    /\ Len(stack) = 1
    /\ Top.phase = "dispatch"
    /\ Top.next = 2 /\ Len(Top.list) = 2
    /\ Top.log[1].raised
    /\ ~Top.log[2].raised

\* C16: emit invokes the handlers of the event's type and the global
\* handlers in subscription order: of any two handlers that receive an
\* event, the one subscribed earlier is invoked first, also when one is
\* type-specific and the other global.
C16_SubscriptionOrder ==
    \A f \in Frames :
        \A i, j \in 1..Len(f.log) : i < j => f.log[i].at < f.log[j].at

\* C16 as the code has it: emit invokes every handler registered for the
\* event's type, in subscription order, and then every global handler, in
\* subscription order; a type-specific handler comes before a global one
\* whichever subscribed first.
C16_TypeThenGlobal ==
    \A f \in Frames :
        /\ \A i, j \in 1..Len(f.log) :
               i < j =>
                   /\ f.log[i].kind = f.log[j].kind => f.log[i].at < f.log[j].at
                   /\ f.log[i].kind = "global" => f.log[j].kind = "global"
        /\ \A k \in 1..Len(f.log) :
               f.log[k].at = f.list[k].at /\ f.log[k].h = f.list[k].h
        /\ (f.phase = "dispatch" /\ f.next = Len(f.list)) => Len(f.log) = Len(f.list)
        /\ (f.phase = "dispatch" /\ f.next = 0 /\ f = Top) =>
               {f.list[k].at : k \in 1..Len(f.list)} =
                   {bus_handlers[f.ev.type][k].at : k \in 1..Len(bus_handlers[f.ev.type])}
                   \cup {global_handlers[k].at : k \in 1..Len(global_handlers)}

\* C16, reached: an event went first to a type-specific handler and then to
\* a global handler that had subscribed before it.
C16_Witness ==
    /\ Len(stack) = 1
    /\ Top.next = 2 /\ Len(Top.log) = 2
    /\ Top.log[1].kind = "type" /\ Top.log[2].kind = "global"
    /\ Top.log[2].at < Top.log[1].at

\* C17: after any sequence of emits from one thread the history holds at
\* most max_history events, and they are exactly the most recently emitted
\* events in emission order; an event is in the history before the first
\* handler is invoked for it.
C17_HistoryIsLatest ==
    /\ Len(event_history) <= MaxHistory
    /\ Len(event_history) = (IF emitted < MaxHistory THEN emitted ELSE MaxHistory)
    /\ \A k \in 1..Len(event_history) :
           event_history[k].id = emitted - Len(event_history) + k
    /\ \A f \in Frames : Len(f.log) >= 1 => f.log[1].stored

\* C17, reached: the history has overflowed and holds the last two events,
\* the newest of which is being dispatched.
C17_Witness ==
    /\ emitted = MaxHistory + 1
    /\ Len(event_history) = MaxHistory
    /\ event_history[1].id = 2
    /\ Len(stack) = 1 /\ Top.ev.id = emitted
    /\ Len(Top.log) >= 1

\* C18: the handler lock is never held while a handler runs, so a handler
\* that calls subscribe, subscribe_all, unsubscribe or emit on the same bus
\* is not blocked: the lock can be taken whenever a handler or a nested emit
\* needs it, and the outer emit goes on.
C18_LockNotHeldInHandlers ==
    stack # << >> =>
        /\ Top.phase = "in_handler" =>
               /\ handler_lock = None
               /\ ENABLED (\E ty \in EventType, h \in HandlerIds : Unsubscribe(ty, h))
        /\ Top.phase = "stored" => ENABLED EmitCopy

\* C18, reached: an outer emit is about to return after a handler of it
\* subscribed a handler and then emitted on the same bus, and the nested
\* emit has dispatched its event to the new handler too.
C18_Witness ==
    /\ Len(stack) = 1
    /\ Top.phase = "dispatch"
    /\ Top.next = Len(Top.list)
    /\ Top.nested = "emit"
    /\ Len(bus_handlers[Top.ev.type]) + Len(global_handlers) > Len(Top.list)
    /\ emitted = Top.ev.id + 1
    /\ handler_lock = None

\* The identity of a window: its hwnd, None for no window.
Identity(w) == IF w = None THEN None ELSE hwnd(w)

\* C19: set_current_window(w) clears every cached element when w's window
\* identity (hwnd, None for no window) differs from the current window's and
\* leaves the cache as it was when the identity is the same; either way
\* current_window becomes w.
C19_WindowChangeClearsCache ==
    ctx_last.op = "set_current_window" =>
        /\ ectx.current_window = ctx_last.arg
        /\ ectx.found_elements =
               (IF Identity(ctx_last.window) = Identity(ctx_last.arg)
                THEN ctx_last.elements ELSE {})

\* C19, reached: with elements cached, the current window was replaced by
\* another WindowInfo of the same hwnd and the cache was kept.
C19_Witness ==
    /\ ctx_last.op = "set_current_window"
    /\ ctx_last.window = "notepad" /\ ctx_last.arg = "notepad_edited"
    /\ ctx_last.elements # {}
    /\ ectx.found_elements = ctx_last.elements
    /\ ectx.current_window = "notepad_edited"

\* C20: get_element(name) on a cached entry returns None and removes the
\* entry when its reference is stale, so that later calls return None until
\* the name is stored again, and returns the reference and leaves it in the
\* cache when it is not stale: the call returns one way or the other.
C20_StaleIsEvicted ==
    (ctx_last.op = "get_element" /\ ctx_last.held # None) =>
        /\ ctx_last.raised = None
        /\ \/ /\ ctx_last.result = None
              /\ Lookup(ectx, Normalized(ctx_last.arg)) = {}
           \/ /\ ctx_last.result = ctx_last.held
              /\ ectx.found_elements = ctx_last.elements

\* The part of C20 that holds: get_element of a name that is not cached
\* returns None and changes nothing, and store_element puts the reference
\* under the normalized name, replacing what was there.
UncachedIsNone ==
    /\ (ctx_last.op = "get_element" /\ ctx_last.held = None) =>
           /\ ctx_last.result = None /\ ctx_last.raised = None
           /\ ectx.found_elements = ctx_last.elements
    /\ ctx_last.op = "store_element" =>
           Lookup(ectx, Normalized(ctx_last.arg)) =
               {<<Normalized(ctx_last.arg), Held(ctx_last.arg)>>}


\* C21: when the execute of step i returns success=false with error e and
\* method m (the result appended to context.step_results), the step ends
\* FAILED with e as its error, a PLAN_STEP_FAILED for the step carries e and
\* m, and the PLAN_FAILED of the call carries e.
C21_FailureIsReported ==
    \A i \in 1..Len(calls[T]) :
        calls[T][i].exec = "failure" =>
            LET r == context[T].step_results[i]
            IN /\ plan[T][i].status = "FAILED"
               /\ plan[T][i].error = r.error
               /\ \E k \in 1..Len(events[T]) :
                      events[T][k] = Ev("PLAN_STEP_FAILED", i - 1, r.error,
                                        r.method_used)
               /\ (Ended(T) /\ outcome[T] = "False") =>
                      LastPlanEvent(T) = Ev("PLAN_FAILED", -1, r.error, None)

\* The part of C21 that holds: a failed execute leaves the step FAILED, one
\* PLAN_STEP_FAILED is emitted for it, and the step's error, that event's
\* error and the failure reason of the call are one and the same message.
FailureMessagesAgree ==
    \A i \in 1..Len(calls[T]) :
        calls[T][i].exec = "failure" =>
            /\ plan[T][i].status = "FAILED"
            /\ \E k \in 1..Len(events[T]) :
                   events[T][k] = Ev("PLAN_STEP_FAILED", i - 1, plan[T][i].error,
                                     None)
            /\ pc[T] \in {"finally", "done"} => failure_reason[T] = plan[T][i].error


\* C22: each action_name has exactly one handler in the registry, and a
\* registration under a name that is already present, at the startup merge
\* or through register_handler, is flagged.
C22_DuplicatesFlagged ==
    /\ \A name \in StepActions : Cardinality(Registered(_handlers, name)) <= 1
    /\ reg_last.previous # {} => reg_last.printed = "Duplicate handler for"

\* The part of C22 that holds: a name never has two handlers, the handler
\* registered last is the one the name maps to, and the startup merge prints
\* its warning exactly when it replaces a handler.
LastRegistrationWins ==
    /\ \A name \in StepActions : Cardinality(Registered(_handlers, name)) <= 1
    /\ reg_last.op # None =>
           Registered(_handlers, reg_last.handler.action_name) =
               {<<reg_last.handler.action_name, reg_last.handler>>}
    /\ reg_last.op = "_register_all_handlers" =>
           (reg_last.printed = "Duplicate handler for") = (reg_last.previous # {})


\* C23: execute_single_action always returns an ActionResult and never
\* raises: success=false for an unknown action, for a failed validation
\* (execute not invoked) and for a handler exception, otherwise the handler's
\* own result; it never calls verify and emits no event.
C23_DirectCallAlwaysReturns ==
    direct.action # None =>
        /\ direct.raised = None
        /\ direct.returns
        /\ ~direct.found => ~direct.result.success
        /\ (direct.found /\ ~direct.handler_valid) =>
               direct.execute = 0 /\ ~direct.result.success
        /\ direct.handler_exec = "raised" => ~direct.result.success
        /\ direct.handler_exec \in {"success", "failure"} =>
               direct.result = direct.handler_result
        /\ direct.verify = 0
        /\ direct.emitted = 0

\* The part of C23 that holds: a direct call validates before it executes,
\* never executes after a failed validation or for an unknown action, never
\* calls verify, emits no event, and hands back the handler's own result
\* whenever execute returns one.
DirectCallReturnsHandlerResult ==
    direct.action # None =>
        /\ direct.validate = (IF direct.found THEN 1 ELSE 0)
        /\ direct.execute = (IF direct.found /\ direct.handler_valid THEN 1 ELSE 0)
        /\ direct.verify = 0
        /\ direct.emitted = 0
        /\ direct.returns = (direct.handler_exec \in {"success", "failure"})
        /\ direct.returns => direct.result = direct.handler_result
        /\ direct.returns # (direct.raised # None)


\* The states from which the state machine refuses to go to EXECUTING.
NotBeforeExecuting == {"IDLE", "LISTENING", "THINKING", "ERROR"}

\* C24: the transition to EXECUTING is best-effort.  When execute_plan is
\* called with the state machine in IDLE, LISTENING, THINKING or ERROR,
\* set_state(EXECUTING) is refused, the state machine stays where it was, and
\* the steps are run all the same: the run reaches its end only after its
\* first step was started, in a state that is not EXECUTING.
C24_BestEffortExecuting ==
    (Running(T) /\ entry_state[T] \in NotBeforeExecuting) =>
        /\ current_state = entry_state[T]
        /\ current_state # "EXECUTING"
        /\ (pc[T] = "finally" /\ plan[T] # NoPlan) => Len(calls[T]) >= 1
        /\ \A i \in 1..Len(calls[T]) :
               plan[T][i].started_at /\ plan[T][i].status # "PENDING"

\* C24, reached: called in IDLE, a run has executed both steps of its plan
\* with success and the state machine is still in IDLE.
C24_Witness ==
    /\ pc[T] = "finally"
    /\ entry_state[T] = "IDLE"
    /\ current_state = "IDLE"
    /\ Len(calls[T]) = 2
    /\ \A i \in 1..2 : calls[T][i].exec = "success" /\ plan[T][i].status = "COMPLETED"


\* The run of thread t has left its loop, or is over.
LoopLeft(t) == pc[t] \in {"finally", "done"} /\ plan[t] # NoPlan

\* C25: no cancellation.  stop() during a run does not keep the remaining
\* steps from being executed: a run leaves its loop before it has started
\* every step only on the plan timeout, or on the failure of the step it
\* started last or an exception that escaped it.
C25_NoCancellation ==
    LoopLeft(T) =>
        \/ Len(calls[T]) = Len(plan[T])
        \/ failure_reason[T] = TimeoutMsg
        \/ /\ Len(calls[T]) >= 1
           /\ failure_reason[T] # NoMsg
           /\ plan[T][Len(calls[T])].status \in {"FAILED", "RUNNING"}

\* C25, reached: stop() was called between the two steps of a run, and the
\* second step was executed with success all the same.
C25_Witness ==
    /\ pc[T] = "finally"
    /\ Len(calls[T]) = 2
    /\ calls[T][1].executing
    /\ ~calls[T][2].executing
    /\ calls[T][2].exec = "success"
    /\ plan_success[T]


\* Within the call of thread t: no step's validate or execute is invoked
\* twice, no step is started twice, and no more steps are started than the
\* plan has.
NoRetry(t) ==
    /\ \A i \in 1..Len(calls[t]) :
           calls[t][i].validate <= 1 /\ calls[t][i].execute <= 1
    /\ Len(calls[t]) <= Len(plan[t])
    /\ CountEv(t, "PLAN_STEP_STARTED") = Len(calls[t])
    /\ \A j \in 0..(Len(plan[t]) - 1) :
           Cardinality({k \in 1..Len(events[t]) :
                            /\ events[t][k].type = "PLAN_STEP_STARTED"
                            /\ events[t][k].step_index = j}) <= 1

\* C26: no retry and termination.  Within one execute_plan call each step's
\* validate and execute are invoked at most once and at most len(plan.steps)
\* steps are started; and a call whose handler, subscriber and logger calls
\* all come back ends.
C26_NoRetryAndTermination ==
    /\ [](InCall(T) => NoRetry(T))
    /\ (pc[T] = "checked") ~> Ended(T)

\* C26, reached: a call has ended after validating and executing each of its
\* two steps once.
C26_Witness ==
    /\ Ended(T)
    /\ Len(plan[T]) = 2
    /\ Len(calls[T]) = 2
    /\ \A i \in 1..2 : calls[T][i].validate = 1 /\ calls[T][i].execute = 1


\* The steps of the call of thread t whose execute has succeeded so far.
Succeeded(t) == {i \in 1..Len(calls[t]) : calls[t][i].exec = "success"}

\* The variables the call of thread t can have set so far.
VariablesOfRun(t) ==
    {<<"step_verify_failed", i - 1>> : i \in 1..Len(calls[t])}
    \cup (IF \E i \in Succeeded(t) : plan[t][i].action = "wait"
          THEN {<<"last_wait_seconds">>, <<"last_wait_reason">>} ELSE {})

\* C27: each execute_plan call builds one new ExecutionContext with no
\* current window and empty found_elements, step_results and variables, and
\* nothing an earlier run stored is in it: before its first step the run's
\* context is the empty one, and afterwards it holds one result for each
\* execute of this run that returned, a window only if a focus_window of
\* this run succeeded, and only variables this run set.
C27_FreshContextPerRun ==
    Running(T) =>
        /\ Len(calls[T]) = 0 => context[T] = ExecutionContext
        /\ Len(context[T].step_results) =
               Cardinality({i \in 1..Len(calls[T]) :
                                calls[T][i].exec \in {"success", "failure"}})
        /\ context[T].current_window # None =>
               \E i \in Succeeded(T) : plan[T][i].action = "focus_window"
        /\ context[T].variables \subseteq VariablesOfRun(T)
        /\ context[T].found_elements = {}

\* C27, reached: a second call with the same plan is about to run its first
\* step with an empty context, after a first call that left a window, two
\* results and variables in its own.
C27_Witness ==
    /\ pc[T] = "loop"
    /\ Len(calls[T]) = 0
    /\ context[T] = ExecutionContext
    /\ Len(plan[T]) = 2
    /\ plan[T][1].action = "focus_window" /\ plan[T][1].status = "COMPLETED"
    /\ plan[T][2].action = "wait" /\ plan[T][2].status = "COMPLETED"


\* The events that end a step.
StepEndTypes == {"PLAN_STEP_COMPLETED", "PLAN_STEP_FAILED"}

\* The number of events that end the step with index j in the call of thread t.
StepEnds(t, j) ==
    Cardinality({k \in 1..Len(events[t]) :
                     events[t][k].type \in StepEndTypes /\ events[t][k].step_index = j})

\* The PLAN_STEP_STARTED events of the call of thread t, in order.
IsStepStarted(e) == e.type = "PLAN_STEP_STARTED"
StartedEvents(t) == SelectSeq(events[t], IsStepStarted)

\* C28: step event protocol.  Steps are started in plan order, and every
\* PLAN_STEP_STARTED for index i is followed by exactly one
\* PLAN_STEP_COMPLETED or PLAN_STEP_FAILED for index i, before any
\* PLAN_STEP_STARTED for index i+1 and before the terminal event.
C28_StepEventProtocol ==
    LET e == PlanEvents(T)
    IN /\ \A n \in 1..Len(StartedEvents(T)) : StartedEvents(T)[n].step_index = n - 1
       /\ \A k \in 1..Len(e) :
              e[k].type = "PLAN_STEP_STARTED" =>
                  /\ StepEnds(T, e[k].step_index) <= 1
                  /\ k < Len(e) =>
                         /\ e[k + 1].type \in StepEndTypes
                         /\ e[k + 1].step_index = e[k].step_index
                  /\ Ended(T) => k < Len(e)

\* The part of C28 that holds: steps are started in plan order, no step has
\* two ending events, an ending event comes right after the start of its
\* step, and only a step whose execute raised is left without one.
StepEventsUnlessRaised ==
    LET e == PlanEvents(T)
    IN /\ \A n \in 1..Len(StartedEvents(T)) : StartedEvents(T)[n].step_index = n - 1
       /\ \A k \in 1..Len(e) :
              /\ e[k].type = "PLAN_STEP_STARTED" =>
                     /\ StepEnds(T, e[k].step_index) <= 1
                     /\ StepEnds(T, e[k].step_index) = 0 <=>
                            calls[T][e[k].step_index + 1].exec = "raised"
              /\ e[k].type \in StepEndTypes =>
                     /\ k > 1
                     /\ e[k - 1].type = "PLAN_STEP_STARTED"
                     /\ e[k - 1].step_index = e[k].step_index


\* C29: every set_state call that changes the state emits exactly one
\* transition event, carrying the names of the old and the new state, after
\* current_state has been updated; a same-state call and a rejected call
\* emit no event.
C29_OneEventPerTransition ==
    \A t \in Threads :
        /\ sm_ret[t].kind = "changed" =>
               /\ Len(sm_ret[t].events) = 1
               /\ sm_ret[t].events[1].old_state = sm_ret[t].was
               /\ sm_ret[t].events[1].new_state = sm_ret[t].to
               /\ sm_ret[t].events[1].current = sm_ret[t].to
               /\ sm_ret[t].was # sm_ret[t].to
        /\ sm_ret[t].kind \in {"same", "blocked"} => sm_ret[t].events = << >>
        /\ sm_pc[t] \in {"waiting", "locked", "same", "blocked", "allowed", "assigned"} =>
               sm_emitted[t] = << >>

\* C29, reached: one thread's call has changed the state to THINKING and
\* emitted its event, and the other's call, asking for THINKING after it,
\* has returned without one.
C29_Witness ==
    /\ sm_ret["t1"].kind = "changed" /\ Len(sm_ret["t1"].events) = 1
    /\ sm_ret["t1"].to = "THINKING"
    /\ sm_ret["t2"].kind = "same" /\ sm_ret["t2"].events = << >>
    /\ sm_ret["t2"].to = "THINKING"


\* The positions of the terminal events among the events of thread t's call.
TerminalAt(t) ==
    {k \in 1..Len(events[t]) : events[t][k].type \in {"PLAN_COMPLETED", "PLAN_FAILED"}}

\* C30: in every execute_plan call log_execution is invoked exactly once,
\* after the last step attempt and before the terminal event, with the
\* success flag and failure reason that the terminal event and the return
\* value report.
C30_LoggedOnceBeforeTerminalEvent ==
    /\ InCall(T) /\ ~Ended(T) => logged[T] = << >>
    /\ Ended(T) =>
           /\ Len(logged[T]) = 1
           /\ logged[T][1].steps = Len(calls[T])
           /\ logged[T][1].success = plan_success[T]
           /\ logged[T][1].failure_reason = failure_reason[T]
           /\ \A k \in 1..Len(events[T]) :
                  events[T][k].type \in {"PLAN_STEP_STARTED"} \cup StepEndTypes =>
                      k <= logged[T][1].emitted
           /\ \A k \in TerminalAt(T) :
                  /\ k > logged[T][1].emitted
                  /\ events[T][k] =
                         TerminalEvent(logged[T][1].success, logged[T][1].failure_reason)
           /\ outcome[T] \in {"True", "False"} =>
                  /\ TerminalAt(T) # {}
                  /\ logged[T][1].success = (outcome[T] = "True")

\* C30, reached: a call whose second step failed its validation has logged
\* the failure once and then emitted PLAN_FAILED with the logged reason.
C30_Witness ==
    /\ Ended(T)
    /\ outcome[T] = "False"
    /\ Len(calls[T]) = 2
    /\ calls[T][2].validation = "invalid"
    /\ Len(logged[T]) = 1
    /\ ~logged[T][1].success
    /\ LastPlanEvent(T) = Ev("PLAN_FAILED", -1, logged[T][1].failure_reason, None)


\* The delivery of a PLAN_CREATED without plan or intent returns to thread t.
MissingReturns(t) == outcome'[t] = "missing" /\ outcome[t] # "missing"

\* C31: a PLAN_CREATED event that lacks a plan or an intent starts no
\* execution: the handler emits one ERROR event and returns, and
\* is_executing, current_context, the state machine and the steps of every
\* plan are as they were.
C31_MissingDataStartsNothing ==
    [][MissingReturns(T) =>
           /\ Len(events'[T]) = 1
           /\ events'[T][1].type = "ERROR"
           /\ pc'[T] = "idle"
           /\ calls'[T] = << >>
           /\ UNCHANGED <<is_executing, current_context, current_state, last_state,
                          plan>>]_vars

\* C31, reached: the event arrives at an executor an earlier run has left
\* with is_executing set and a context, in state EXECUTING, and changes none
\* of it.
C31_Witness ==
    /\ outcome[T] = "missing"
    /\ events[T] = MissingDataEvents
    /\ is_executing
    /\ current_context = T
    /\ current_state = "EXECUTING"


\* C32: if log_execution raises in the cleanup of execute_plan, the
\* exception leaves execute_plan, no PLAN_COMPLETED or PLAN_FAILED is
\* emitted, the state machine is not asked for IDLE, and is_executing stays
\* true; and while it is true a PLAN_CREATED that is delivered is dropped,
\* never executed.
C32_LoggerRaiseLeavesExecutorStuck ==
    /\ []((Ended(T) /\ log_execution_raises(log_keys)) =>
              /\ outcome[T] = "raised"
              /\ TerminalAt(T) = {}
              /\ lastSetState.to = "EXECUTING"
              /\ current_state = (IF lastSetState.ok THEN "EXECUTING" ELSE entry_state[T])
              /\ is_executing
              /\ current_context = T)
    /\ [][(is_executing /\ pc[T] = "idle" /\ via'[T] = "event") =>
              /\ outcome'[T] = "dropped"
              /\ pc'[T] = "idle"]_vars

\* C32, reached: after a run in which the logger raised, the executor is
\* still marked executing in state EXECUTING, and a PLAN_CREATED delivered
\* to it has been dropped.
C32_Witness ==
    /\ log_execution_raises(log_keys)
    /\ outcome[T] = "dropped"
    /\ is_executing
    /\ current_context = T
    /\ current_state = "EXECUTING"


\* C33: is_executing is cleared only after the terminal event has been
\* dispatched.  Every plan event of a run (step started, completed, failed,
\* plan completed, failed) is dispatched with is_executing set, so a
\* PLAN_CREATED a subscriber emits from inside the dispatch is dropped; the
\* flag is clear once the call has returned.
C33_ClearedAfterTerminalEvent ==
    /\ \A k \in 1..Len(events[T]) :
           IsPlanEvent(events[T][k]) => on_plan_created(flag_at[T][k]) = "dropped"
    /\ (Ended(T) /\ outcome[T] \in {"True", "False"}) =>
           /\ ~is_executing
           /\ TerminalAt(T) # {}

\* C33, reached: a run has ended with PLAN_FAILED after a failed step; the
\* three events were dispatched with the flag set, and the flag is clear now.
C33_Witness ==
    /\ Ended(T)
    /\ outcome[T] = "False"
    /\ ~is_executing
    /\ Len(PlanEvents(T)) = 3
    /\ LastPlanEvent(T).type = "PLAN_FAILED"
    /\ \A k \in 1..Len(events[T]) : flag_at[T][k]


\* Thread t is inside a run that has not reached its cleanup.
InLoop(t) == pc[t] = "loop"

\* C34: execute_plan does not check is_executing.  A direct call can always
\* be made, also while a run is in progress, and starts a second run that
\* overlaps the first; and the run that ends first ends with is_executing
\* false and current_context None, whatever the other run is doing.
C34_DirectCallsOverlap ==
    /\ [](\A t \in Threads :
              pc[t] = "idle" => ENABLED CallExecutePlan(t, <<Step("wait")>>))
    /\ [][\A t \in Threads :
              (pc[t] = "finally" /\ pc'[t] = "done" /\ outcome'[t] \in {"True", "False"}) =>
                  ~is_executing' /\ current_context' = None]_vars

\* C34, reached: while thread t1 is in its loop with its step still to run,
\* a run that thread t2 started by a direct call during t1's run has ended,
\* and is_executing is false and current_context None.
C34_Witness ==
    /\ InLoop("t1")
    /\ step_index["t1"] = 0 /\ Len(plan["t1"]) = 1
    /\ pc["t2"] = "done" /\ via["t2"] = "direct"
    /\ outcome["t2"] = "True"
    /\ ~is_executing
    /\ current_context = None


\* A step of stop(): no thread moves, no step is taken and no delivery ends.
StopStep == pc' = pc /\ step_index' = step_index /\ outcome' = outcome

\* C35: stop() clears is_executing and nothing else: the executor stays
\* subscribed to PLAN_CREATED, the runs in progress, current_context and the
\* state machine are left as they were; so whenever the flag is clear,
\* whether or not a run is still in progress on another thread, a
\* PLAN_CREATED delivered to an idle thread is accepted and starts a run.
C35_StopOnlyClearsTheFlag ==
    /\ [](/\ subscribed
          /\ \A t \in Threads :
                 (pc[t] = "idle" /\ ~is_executing)
                     => ENABLED OnPlanCreatedAccepted(t, <<Step("wait")>>))
    /\ [][StopStep => /\ ~is_executing'
                      /\ subscribed' = subscribed
                      /\ current_context' = current_context
                      /\ current_state' = current_state
                      /\ plan' = plan /\ events' = events]_vars

\* A run started by a PLAN_CREATED met no other run, stop() was called while
\* it was in progress, and a second PLAN_CREATED was then accepted and runs
\* while the first run is still in progress.
C35_Witness ==
    /\ Running("t1") /\ via["t1"] = "event" /\ met["t1"] = {} /\ stop_seen["t1"]
    /\ Running("t2") /\ via["t2"] = "event" /\ met["t2"] = {"t1"}


\* C36: in every state of the executor, under PLAN_CREATED deliveries,
\* direct execute_plan calls and stop(), current_context is set only while
\* is_executing is true.
C36_ContextOnlyWhileExecuting == current_context # None => is_executing


\* C37: set_state emits the transition event while it holds the state
\* mutex, and the mutex is not reentrant: once a subscriber of that event has
\* called set_state on the emitting thread, with a different state or not,
\* that call waits for the mutex for ever and the outer set_state never
\* leaves its emit, so it never returns and never releases the mutex.
C37_SubscriberSetStateBlocksForever ==
    /\ [](\A t \in Threads : sm_pc[t] = "assigned" => state_lock = t)
    /\ [][\A t \in Threads :
              sm_inner[t] # None
                  => /\ sm_inner'[t] = sm_inner[t]
                     /\ sm_pc'[t] = "assigned"
                     /\ state_lock' = t
                     /\ sm_ret'[t] = NoReturn]_vars

\* A subscriber run by t1's set_state(THINKING) has called set_state(IDLE),
\* a different state; t1 holds the mutex inside its emit and t2, which
\* called set_state meanwhile, waits for the mutex as well.
C37_Witness ==
    /\ sm_pc["t1"] = "assigned" /\ sm_new["t1"] = "THINKING"
    /\ current_state = "THINKING" /\ sm_inner["t1"] = "IDLE"
    /\ state_lock = "t1" /\ sm_pc["t2"] = "waiting"


\* C38: STOPPED has no entry in allowed_transitions and yet is not
\* absorbing.  From STOPPED set_state accepts ERROR and the STOPPED no-op and
\* nothing else; from the ERROR so reached it accepts IDLE.  A run of
\* execute_plan entered while the state machine is STOPPED has its
\* set_state(EXECUTING) rejected, and when it returns its set_state(IDLE) has
\* been rejected too: the state machine is STOPPED all along.
C38_StoppedLeftOnlyThroughError ==
    /\ allowed_transitions("STOPPED") = {}
    /\ \A s \in AgentState :
           set_state("STOPPED", "IDLE", s).ok <=> s \in {"ERROR", "STOPPED"}
    /\ set_state("STOPPED", "IDLE", "STOPPED").event = None
    /\ set_state("STOPPED", "IDLE", "ERROR").current = "ERROR"
    /\ set_state("ERROR", "STOPPED", "IDLE").ok
    /\ set_state("ERROR", "STOPPED", "IDLE").current = "IDLE"
    /\ entry_state[T] = "STOPPED" =>
           /\ current_state = "STOPPED"
           /\ lastSetState.from = "STOPPED" /\ ~lastSetState.ok
           /\ Running(T) => lastSetState.to = "EXECUTING"
           /\ (pc[T] = "done" /\ outcome[T] \in {"True", "False"})
                  => lastSetState.to = "IDLE"

\* C38, reached: a run entered in STOPPED has executed a step with success
\* and returned True; its last set_state, STOPPED to IDLE, was rejected.
C38_Witness ==
    /\ pc[T] = "done" /\ outcome[T] = "True"
    /\ entry_state[T] = "STOPPED"
    /\ Len(calls[T]) >= 1
    /\ current_state = "STOPPED"
    /\ lastSetState = [from |-> "STOPPED", to |-> "IDLE", ok |-> FALSE, event |-> None]


\* The callables of a list of handler entries, in order.
Callables(q) == [k \in 1..Len(q) |-> q[k].h]

\* The callables subscribed now, to the type of frame f's event or globally.
SubscribedNow(f) ==
    {bus_handlers[f.ev.type][k].h : k \in 1..Len(bus_handlers[f.ev.type])}
        \cup {global_handlers[k].h : k \in 1..Len(global_handlers)}

\* The emit call f is past its copy of the lists.
PastCopy(f) == f.phase \in {"dispatch", "in_handler", "unwinding"}

\* C39: emit dispatches to the copy of the handler lists it takes when it
\* starts.  The handlers an emit has called are the first entries of its
\* copy, whatever the lists of the bus have become: a handler subscribed
\* during the dispatch (subscribed now and not in the copy) is not called for
\* the event, and by the time the emit returns every entry of the copy has
\* been called, those unsubscribed meanwhile included.  The copy of an emit
\* in progress never changes, and the copy a later emit takes is the lists as
\* they are then, with both kinds of change in them.
C39_DispatchToSnapshot ==
    /\ [](\A k \in 1..Len(stack) :
              PastCopy(stack[k]) =>
                  /\ Len(stack[k].log) <= Len(stack[k].list)
                  /\ \A i \in 1..Len(stack[k].log) :
                         stack[k].log[i].h = stack[k].list[i].h
                  /\ \A h \in SubscribedNow(stack[k]) :
                         (\A i \in 1..Len(stack[k].list) : stack[k].list[i].h # h)
                             => \A i \in 1..Len(stack[k].log) : stack[k].log[i].h # h)
    /\ [][/\ \A k \in 1..Len(stack) :
                 (k <= Len(stack') /\ PastCopy(stack[k]))
                     => stack'[k].list = stack[k].list
          /\ (Len(stack') < Len(stack) /\ Top.phase = "dispatch")
                 => Callables(Top.log) = Callables(Top.list)
          /\ (stack # << >> /\ Len(stack') = Len(stack) /\ Top.phase = "stored"
                  /\ stack'[Len(stack)].phase = "dispatch")
                 => stack'[Len(stack)].list = LiveLists]_vars

\* Handler 1, called for event 1, subscribed handler 2 and emitted event 2.
\* The inner emit took both in its copy and has called both, though handler
\* 1, called again, unsubscribed handler 2 before its turn; the outer emit's
\* copy still holds handler 1 alone, and the bus's list is handler 1 alone.
C39_Witness ==
    /\ Len(stack) = 2
    /\ Callables(stack[1].list) = <<1>> /\ Callables(stack[1].log) = <<1>>
    /\ Callables(stack[2].list) = <<1, 2>> /\ Callables(stack[2].log) = <<1, 2>>
    /\ Callables(bus_handlers["PLAN_CREATED"]) = <<1>>
    /\ global_handlers = << >>


\* The ids of the events in the history.
Kept == {event_history[k].id : k \in 1..Len(event_history)}

\* The two events appended last.
LastTwo == {h_order[k] : k \in {j \in 1..Len(h_order) : j > Len(h_order) - 2}}

\* C40: the history is updated with no lock held, and no event is lost by
\* it: once every emit of the two threads is past its history lines, the
\* history holds at most max_history events and the two events appended last
\* are both among them.
C40_NoEventLostByConcurrentEmits ==
    (\A t \in Threads : h_pc[t] = "idle") =>
        /\ Len(event_history) <= MaxHistory
        /\ LastTwo \subseteq Kept

\* However the two emits interleave, the history never ends up longer than
\* max_history.
HistoryBoundedAfterEmits ==
    (\A t \in Threads : h_pc[t] = "idle") => Len(event_history) <= MaxHistory

====
